---- MODULE Spec2Model ----
(***************************************************************************)
(* Slug allocation and the Insight record store of the Hammer site.        *)
(*                                                                         *)
(* Strings are sequences of characters; a character is a one-element token *)
(* ("a", "B", " ", ...).  Two tokens stand for non-ASCII characters:       *)
(*   "LIG_FI"  U+FB01, whose NFKD form is the two letters "f" "i";         *)
(*   "SHARP_S" U+00DF, which has no decomposition and is dropped by the    *)
(*             ASCII encoding step of slugify.                             *)
(***************************************************************************)
EXTENDS Integers, Sequences, FiniteSets, TLC

\* ------------------------------------------------------------------------
\* Characters and strings
\* ------------------------------------------------------------------------

Lower == {"a", "b", "c", "e", "f", "i", "o", "p", "s", "t"}
Upper == {"A", "B"}
Digit == {"0", "1", "2", "3", "4", "5", "6", "7", "8", "9"}
Space == {" "}

\* str.lower() on one ASCII character.
ToLower(c) ==
    CASE c = "A" -> "a"
      [] c = "B" -> "b"
      [] OTHER -> c

\* unicodedata.normalize("NFKD", c).encode("ascii", "ignore") on one character.
NfkdAscii(c) ==
    CASE c = "LIG_FI" -> <<"f", "i">>
      [] c = "SHARP_S" -> <<>>
      [] OTHER -> <<c>>

\* \w of the regular expressions, on ASCII text.
IsWord(c) == c \in Lower \cup Upper \cup Digit \cup {"_"}

\* The NFKD/ASCII forms of s[lo..hi], concatenated (halving keeps the
\* evaluation shallow on long titles).
RECURSIVE FlatMap(_, _, _)
FlatMap(s, lo, hi) ==
    IF lo > hi THEN <<>>
    ELSE IF lo = hi THEN NfkdAscii(s[lo])
    ELSE LET mid == (lo + hi) \div 2
         IN  FlatMap(s, lo, mid) \o FlatMap(s, mid + 1, hi)

\* s[:n]
Take(s, n) == IF Len(s) <= n THEN s ELSE SubSeq(s, 1, n)

\* re.sub(r"[-\s]+", "-", s): every maximal run of hyphens and white space
\* becomes one hyphen.
IsSep(c) == c = "-" \/ c \in Space
CollapseRuns(s) ==
    LET marked == [i \in 1..Len(s) |->
                     IF IsSep(s[i])
                     THEN (IF i > 1 /\ IsSep(s[i - 1]) THEN "DROP" ELSE "-")
                     ELSE s[i]]
    IN  SelectSeq(marked, LAMBDA c : c # "DROP")

\* s.strip(chars)
Strip(s, chars) ==
    LET keep == {i \in 1..Len(s) : s[i] \notin chars}
    IN  IF keep = {} THEN <<>>
        ELSE SubSeq(s, CHOOSE i \in keep : \A j \in keep : i <= j,
                       CHOOSE i \in keep : \A j \in keep : j <= i)

\* django.utils.text.slugify(value) with allow_unicode=False (Django 5.1).
slugify(value) ==
    LET ascii == FlatMap(value, 1, Len(value))
        lowered == [i \in 1..Len(ascii) |-> ToLower(ascii[i])]
        kept == SelectSeq(lowered, LAMBDA c : IsWord(c) \/ IsSep(c))
    IN  Strip(CollapseRuns(kept), {"-", "_"})

\* str(n) for n >= 0.
RECURSIVE IntToStr(_)
IntToStr(n) ==
    LET d == <<"0", "1", "2", "3", "4", "5", "6", "7", "8", "9">>[(n % 10) + 1]
    IN  IF n < 10 THEN <<d>> ELSE Append(IntToStr(n \div 10), d)

\* The suffix numbered one too high.
SuffixedOneOff(base, n) == base \o <<"-">> \o IntToStr(n + 1)

\* f"{base}-{n}"
Suffixed(base, n) == base \o <<"-">> \o IntToStr(n)

\* ------------------------------------------------------------------------
\* HTML text and the two HTML -> Editor.js converters
\*
\* An HTML text is a sequence of lines (the text split at "\n"); a line is
\* a sequence of atoms: a text character ("x", "y", " ") or a whole tag
\* ("<p>", "</p>", "<p class>": an opening tag carrying attributes).
\* The "time" stamp and the random block "id" of the output are left out.
\* ------------------------------------------------------------------------

Tags == {"p", "h1", "h2", "h3", "h4", "h5", "h6", "blockquote", "ul", "ol",
         "li", "div", "table", "strong", "body", "br"}
\* Elements html.parser's tree builder closes as soon as they open.
VoidTags == {"br"}

Open(t) == "<" \o t \o ">"
OpenAttr(t) == "<" \o t \o " class>"
Close(t) == "</" \o t \o ">"

OpenAtoms == {Open(t) : t \in Tags} \cup {OpenAttr(t) : t \in Tags}
CloseAtoms == {Close(t) : t \in Tags}
IsTagAtom(a) == a \in OpenAtoms \cup CloseAtoms
TagName(a) == CHOOSE t \in Tags : a \in {Open(t), OpenAttr(t), Close(t)}

\* White space of str.strip() and of the parser.
HtmlSpace == {" ", "NL"}
StripWs(s) == Strip(s, HtmlSpace)

\* "\n".join(lines)
RECURSIVE JoinLines(_, _)
JoinLines(lines, i) ==
    IF i > Len(lines) THEN <<>>
    ELSE lines[i] \o (IF i < Len(lines) THEN <<"NL">> ELSE <<>>)
                  \o JoinLines(lines, i + 1)

\* The test without its strip(): the empty string only.
IsEmptyString(lines) == JoinLines(lines, 1) = <<>>

\* `not html_content or not html_content.strip()`
IsBlank(lines) == StripWs(JoinLines(lines, 1)) = <<>>

EmptyBlocks == [version |-> "2.28.2", blocks |-> <<>>]
Returned(blocks) == [raised |-> "", doc |-> [version |-> "2.28.2", blocks |-> blocks]]
Raised(exc) == [raised |-> exc, doc |-> EmptyBlocks]

\* re.sub(r"<[^>]+>", "", line).strip()
StripTags(line) == StripWs(SelectSeq(line, LAMBDA a : ~IsTagAtom(a)))

Header(text, level) ==
    [type |-> "header", text |-> text, level |-> level, style |-> "", items |-> <<>>]
Quote(text) ==
    [type |-> "quote", text |-> text, level |-> 0, style |-> "", items |-> <<>>]
Paragraph(text) ==
    [type |-> "paragraph", text |-> text, level |-> 0, style |-> "", items |-> <<>>]
List(style, items) ==
    [type |-> "list", text |-> <<>>, level |-> 0, style |-> style, items |-> items]

\* The blocks one line contributes in create_insights.html_to_editorjs_blocks.
SeedLineBlocks(raw) ==
    LET line == StripWs(raw)
    IN  IF line = <<>> THEN <<>>
        ELSE IF line[1] = Open("h1") THEN <<Header(StripTags(line), 1)>>
        ELSE IF line[1] = Open("h2") THEN <<Header(StripTags(line), 2)>>
        ELSE IF line[1] = Open("h3") THEN <<Header(StripTags(line), 3)>>
        ELSE IF line[1] = Open("blockquote") THEN <<Quote(StripTags(line))>>
        ELSE IF line[1] \in {Open("ul"), Open("ol")} THEN <<>>
        ELSE IF line[1] = Open("li") THEN <<List("unordered", <<StripTags(line)>>)>>
        ELSE IF line[1] = Open("p") THEN <<Paragraph(StripTags(line))>>
        ELSE IF ~IsTagAtom(line[1]) THEN <<Paragraph(line)>>
        ELSE <<>>

RECURSIVE SeedBlocksFrom(_, _)
SeedBlocksFrom(lines, i) ==
    IF i > Len(lines) THEN <<>>
    ELSE SeedLineBlocks(lines[i]) \o SeedBlocksFrom(lines, i + 1)

\* create_insights.html_to_editorjs_blocks
seed_html_to_editorjs_blocks(html_content) ==
    IF IsBlank(html_content) THEN Returned(<<>>)
    ELSE Returned(SeedBlocksFrom(html_content, 1))

\* --- BeautifulSoup(html_content, 'html.parser') ---
\* A node is [name, text, kids]; a text node has name "#text".
TextNode(c) == [name |-> "#text", text |-> <<c>>, kids |-> <<>>]
Element(t, kids) == [name |-> t, text |-> <<>>, kids |-> kids]

\* The open elements, innermost last; stack[1] is the document.
AddKid(stack, node) ==
    [stack EXCEPT ![Len(stack)].kids = Append(@, node)]
PopTag(stack) ==
    AddKid(SubSeq(stack, 1, Len(stack) - 1), stack[Len(stack)])
RECURSIVE PopToTag(_, _)
PopToTag(stack, t) ==
    IF Len(stack) = 1 THEN stack
    ELSE IF stack[Len(stack)].name = t THEN PopTag(stack)
    ELSE PopToTag(PopTag(stack), t)
IsOpenTag(stack, t) == \E i \in 2..Len(stack) : stack[i].name = t
RECURSIVE PopAll(_)
PopAll(stack) == IF Len(stack) = 1 THEN stack[1] ELSE PopAll(PopTag(stack))

Feed(stack, a) ==
    IF a \in OpenAtoms
    THEN IF TagName(a) \in VoidTags
         THEN AddKid(stack, Element(TagName(a), <<>>))
         ELSE Append(stack, Element(TagName(a), <<>>))
    ELSE IF a \in CloseAtoms
    THEN IF IsOpenTag(stack, TagName(a)) THEN PopToTag(stack, TagName(a)) ELSE stack
    ELSE AddKid(stack, TextNode(a))

RECURSIVE FeedAll(_, _, _)
FeedAll(stack, s, i) ==
    IF i > Len(s) THEN stack ELSE FeedAll(Feed(stack, s[i]), s, i + 1)

BeautifulSoup(html_content) ==
    PopAll(FeedAll(<<Element("[document]", <<>>)>>, JoinLines(html_content, 1), 1))

\* node.get_text()
RECURSIVE get_text(_)
RECURSIVE KidsText(_, _)
get_text(node) == node.text \o KidsText(node.kids, 1)
KidsText(kids, i) ==
    IF i > Len(kids) THEN <<>> ELSE get_text(kids[i]) \o KidsText(kids, i + 1)

\* The children named t only, as with recursive=False.
FindChildren(node, t) == SelectSeq(node.kids, LAMBDA k : k.name = t)

\* node.find_all(t): the descendants named t, in document order.
RECURSIVE find_all(_, _)
RECURSIVE FindInKids(_, _, _)
find_all(node, t) == FindInKids(node.kids, t, 1)
FindInKids(kids, t, i) ==
    IF i > Len(kids) THEN <<>>
    ELSE (IF kids[i].name = t THEN <<kids[i]>> ELSE <<>>)
         \o find_all(kids[i], t) \o FindInKids(kids, t, i + 1)

\* node.find_all(recursive=False): the children that are elements.
ChildElements(node) == SelectSeq(node.kids, LAMBDA k : k.name # "#text")

LiTexts(element) ==
    LET lis == find_all(element, "li")
    IN  [i \in 1..Len(lis) |-> StripWs(get_text(lis[i]))]

\* int(element.name[1])
HeaderLevel(name) ==
    CHOOSE n \in 1..6 : name = <<"h1", "h2", "h3", "h4", "h5", "h6">>[n]

\* views.html_to_editorjs_blocks.process_element: the blocks it appends.
process_element(element) ==
    LET text == StripWs(get_text(element))
        items == LiTexts(element)
    IN  IF element.name \in {"h1", "h2", "h3", "h4", "h5", "h6"}
        THEN (IF text # <<>>
              THEN <<Header(text, HeaderLevel(element.name))>>
              ELSE <<>>)
        ELSE IF element.name = "blockquote"
        THEN (IF text # <<>> THEN <<Quote(text)>> ELSE <<>>)
        ELSE IF element.name = "ul"
        THEN (IF items # <<>> THEN <<List("unordered", items)>> ELSE <<>>)
        ELSE IF element.name = "ol"
        THEN (IF items # <<>> THEN <<List("ordered", items)>> ELSE <<>>)
        ELSE IF element.name = "p"
        THEN (IF text # <<>> THEN <<Paragraph(text)>> ELSE <<>>)
        ELSE (IF text # <<>> THEN <<Paragraph(text)>> ELSE <<>>)

RECURSIVE ProcessAll(_, _)
ProcessAll(elements, i) ==
    IF i > Len(elements) THEN <<>>
    ELSE process_element(elements[i]) \o ProcessAll(elements, i + 1)

\* views.html_to_editorjs_blocks.  soup.body is the first <body> element of
\* the parsed text, or None when it has none; None.find_all raises.
views_html_to_editorjs_blocks(html_content) ==
    IF IsBlank(html_content) THEN Returned(<<>>)
    ELSE LET soup == BeautifulSoup(html_content)
             bodies == find_all(soup, "body")
         IN  IF bodies = <<>> THEN Raised("AttributeError")
             ELSE Returned(ProcessAll(ChildElements(bodies[1]), 1))

\* ------------------------------------------------------------------------
\* The record store and the processes working on it
\* ------------------------------------------------------------------------

\* Column widths and slice lengths of the source.
SeedSlugMax == 60
InsightTitleMax == 200
InsightSlugMax == 220
CaseStudyTitleMax == 220
CaseStudySlugMax == 240
AssetTitleMax == 200
AssetSlugMax == 220

\* Bounds of the model.
\* Loop counters of the allocators stop growing here.
MaxCounter == 4
\* Insight rows ever inserted (primary keys handed out).
MaxId == 2
\* Length of the free part of an allocator input.
MaxTail == 2
\* The longest audit log followed.
MaxLog == 2

Procs == {"p1", "p2"}
Services == {"facility"}
ServiceArgs == {"facility", "missing"}

EmptyBody == << <<>> >>
PostBody == << <<"<h2>", "x", "</h2>">>, <<"<p>", "y", "</p>">> >>
\* `{}`, the default of Insight.blocks
EmptyDict == [version |-> "", blocks |-> <<>>]
PostedDoc == [version |-> "2.28.2", blocks |-> <<Paragraph(<<"x">>)>>]

TitleAB == <<"A", " ", "b">>
TitleDashAB == <<"a", "-", "b">>
TitleBang == <<"!">>

\* The posts create_insights.py seeds: title and HTML body.
POSTS == << [title |-> TitleAB, body |-> PostBody] >>

\* What a dashboard user may type as a title.
DashTitles == {TitleAB, TitleDashAB, TitleBang}

VARIABLES
    insights,   \* the Insight table: a set of rows
    assets,     \* the MediaAsset table
    studies,    \* the CaseStudy table
    nextId,     \* the next primary key of the Insight table
    pc,         \* where each process is
    arg,        \* the input each process works on: [title, k]
    loc,        \* the local variables of each process:
                \*   seed    unique_slug's seed / MediaAsset.save's base_slug
                \*   ctr     unique_slug's i / MediaAsset.save's counter
                \*   slug    the candidate, then the slug the allocation returned
                \*   probes  exists() queries made by the allocation in progress
                \*   obj     the row get_or_create handed back
    resp,       \* the outcome of the last request served
    html,       \* the converters' input
    out,        \* the converters' result
    audit,      \* the InsightAuditLog table, oldest entry first
    users       \* the accounts: name, profile role, superuser flag

vars == <<insights, assets, studies, nextId, pc, arg, loc, resp, html, out, audit,
          users>>

NoRow == [id |-> 0, service |-> "", title |-> <<>>, slug |-> <<>>,
          body |-> EmptyBody, blocks |-> EmptyDict, is_active |-> FALSE,
          published |-> FALSE, published_at |-> 0, author |-> ""]
NoArg == [title |-> <<>>, k |-> 0]
NoLocals == [seed |-> <<>>, ctr |-> 0, slug |-> <<>>, probes |-> 0, obj |-> NoRow,
             user |-> "", old_status |-> FALSE]

\* timezone.now() as a logical clock: later than every published_at stored
\* (0 stands for NULL).
Latest(S) == IF S = {} THEN 0 ELSE CHOOSE m \in S : \A x \in S : x <= m
timezone_now == 1 + Latest({r.published_at : r \in insights})

\* Who sends requests: the accounts of tests.py (setUp) and a visitor who
\* is not logged in.
Users == {"admin", "blogauthor", "regular", "anonymous"}

\* A row of auth.User as create_user and UserCreationForm.save() insert it;
\* has_profile says whether a UserProfile row points at it.
NewUser(name) ==
    [name |-> name, is_superuser |-> FALSE, has_profile |-> FALSE, role |-> ""]

\* The post_save receiver of auth.User: a new user gets a UserProfile, whose
\* role is the default of the field.
create_user_profile(a) == [a EXCEPT !.has_profile = TRUE, !.role = "user"]

\* User.objects.create_user / UserCreationForm.save(): the row, then the
\* receiver.
NewAccount(name) == create_user_profile(NewUser(name))

\* The accounts after setUp and `createsuperuser`.
Accounts ==
    {[NewAccount("admin") EXCEPT !.role = "admin"],
     [NewAccount("blogauthor") EXCEPT !.role = "blog_author"],
     NewAccount("regular"),
     [NewAccount("root") EXCEPT !.is_superuser = TRUE]}

\* request.user.is_authenticated, and the account behind request.user.
IsAuthenticated(user) == \E a \in users : a.name = user
Account(user) == CHOOSE a \in users : a.name = user

\* UserProfile.is_admin and UserProfile.is_blog_author
is_admin(a) == a.role = "admin" \/ a.is_superuser
is_blog_author(a) == a.role = "blog_author"

\* A decorator that serves every logged-in user.
LoginRequired(user) == IF ~IsAuthenticated(user) THEN "login" ELSE "ok"

\* @blog_author_required: what the decorator answers before the view runs.
blog_author_required(user) ==
    IF ~IsAuthenticated(user) THEN "login"
    ELSE LET a == Account(user)
         IN  IF a.has_profile
             THEN IF ~(is_admin(a) \/ is_blog_author(a)) THEN "403" ELSE "ok"
             ELSE IF ~a.is_superuser THEN "403" ELSE "ok"

\* A decorator that serves blog authors as well as admins.
AdminOrAuthorRequired(user) == blog_author_required(user)

\* @admin_required
admin_required(user) ==
    IF ~IsAuthenticated(user) THEN "login"
    ELSE LET a == Account(user)
         IN  IF a.has_profile
             THEN IF ~is_admin(a) THEN "403" ELSE "ok"
             ELSE IF ~a.is_superuser THEN "403" ELSE "ok"

\* InsightAuditLog.objects.create(...) for an insight and the acting user.
AuditEntry(action, insight, user, metadata) ==
    [action |-> action, insight_id |-> insight.id, insight_slug |-> insight.slug,
     insight_title |-> insight.title, actor |-> user, actor_username |-> user,
     metadata |-> metadata]

Slugs(rows) == {r.slug : r \in rows}

\* The lookup with the first row left out.
InsightSlugExistsElsewhere(s) == \E r \in insights : r.slug = s /\ r.id # 1

\* Insight.objects.filter(slug=s).exists()
InsightSlugExists(s) == \E r \in insights : r.slug = s

\* MediaAsset.objects.filter(slug=s).exclude(pk=self.pk).exists(), for an
\* asset that has no primary key yet.
AssetSlugExists(s) == \E r \in assets : r.slug = s

\* Insight.save(): the slug is derived from the title when it is empty.
InsightToWrite(row) ==
    IF row.slug = <<>>
    THEN [row EXCEPT !.slug = Take(slugify(row.title), InsightSlugMax)]
    ELSE row

\* A slug column without its unique index.
NoUniqueIndex(rows, row) == FALSE

\* The unique index on slug rejects the row.
SlugTaken(rows, row) == \E r \in rows : r.id # row.id /\ r.slug = row.slug

\* The table after an UPDATE of the row (or its INSERT when it is not there).
Written(rows, row) == {r \in rows : r.id # row.id} \cup {row}

\* A request served: the view (left out when it succeeded) and the outcome.
Response(op, status) == [op |-> IF status = "ok" THEN "" ELSE op, status |-> status]

\* The process returns to its caller: its local variables are gone.
Return(p) ==
    /\ pc' = [pc EXCEPT ![p] = "idle"]
    /\ loc' = [loc EXCEPT ![p] = NoLocals]

\* ------------------------------------------------------------------------
\* create_insights.unique_slug(base), one exists() query per step
\* ------------------------------------------------------------------------

\* (slugify(base)[:60] or "post").strip("-")
UniqueSlugSeed(base) ==
    LET cut == Take(slugify(base), SeedSlugMax)
    IN  Strip(IF cut # <<>> THEN cut ELSE <<"p", "o", "s", "t">>, {"-"})

\* Lines 26-28: the seed itself is tried first.
UniqueSlugFirst(p) ==
    /\ pc[p] = "unique_slug"
    /\ LET s == UniqueSlugSeed(arg[p].title)
       IN  IF ~InsightSlugExists(s)
           THEN /\ loc' = [loc EXCEPT ![p].seed = s, ![p].probes = 1, ![p].slug = s]
                /\ pc' = [pc EXCEPT ![p] = "get_or_create"]
           ELSE /\ loc' = [loc EXCEPT ![p].seed = s, ![p].probes = 1, ![p].ctr = 2]
                /\ pc' = [pc EXCEPT ![p] = "unique_slug_loop"]
    /\ UNCHANGED <<insights, assets, studies, nextId, arg, resp, html, out, audit, users>>

\* Lines 30-34: one turn of `while True`.
UniqueSlugLoop(p) ==
    /\ pc[p] = "unique_slug_loop"
    /\ loc[p].ctr <= MaxCounter
    /\ LET trial == Suffixed(loc[p].seed, loc[p].ctr)
       IN  IF ~InsightSlugExists(trial)
           THEN /\ loc' = [loc EXCEPT ![p].probes = @ + 1, ![p].slug = trial]
                /\ pc' = [pc EXCEPT ![p] = "get_or_create"]
           ELSE /\ loc' = [loc EXCEPT ![p].probes = @ + 1, ![p].ctr = @ + 1]
                /\ pc' = pc
    /\ UNCHANGED <<insights, assets, studies, nextId, arg, resp, html, out, audit, users>>

\* unique_slug(base) run in one piece against the table `rows`.
RECURSIVE FirstFreeTrial(_, _, _)
FirstFreeTrial(rows, seed, i) ==
    IF Suffixed(seed, i) \notin Slugs(rows)
    THEN Suffixed(seed, i)
    ELSE FirstFreeTrial(rows, seed, i + 1)
unique_slug(rows, base) ==
    LET seed == UniqueSlugSeed(base)
    IN  IF seed \notin Slugs(rows) THEN seed ELSE FirstFreeTrial(rows, seed, 2)

\* ------------------------------------------------------------------------
\* MediaAsset.save() of a new asset, one exists() query per step
\* ------------------------------------------------------------------------

\* Lines 475-480: `if not self.slug`, base_slug, counter = 1.
AssetSaveBegin(p) ==
    /\ pc[p] = "asset_save"
    /\ LET base_slug == Take(slugify(arg[p].title), AssetSlugMax)
       IN  loc' = [loc EXCEPT ![p].seed = base_slug, ![p].slug = base_slug,
                              ![p].ctr = 1, ![p].probes = 0]
    /\ pc' = [pc EXCEPT ![p] = "asset_loop"]
    /\ UNCHANGED <<insights, assets, studies, nextId, arg, resp, html, out, audit, users>>

\* Lines 481-483: one evaluation of the `while` condition, and the body.
AssetSaveLoop(p) ==
    /\ pc[p] = "asset_loop"
    /\ loc[p].ctr <= MaxCounter
    /\ IF AssetSlugExists(loc[p].slug)
       THEN /\ loc' = [loc EXCEPT
                         ![p].probes = @ + 1,
                         ![p].slug = Take(Suffixed(loc[p].seed, loc[p].ctr), AssetSlugMax),
                         ![p].ctr = @ + 1]
            /\ pc' = pc
       ELSE /\ loc' = [loc EXCEPT ![p].probes = @ + 1]
            /\ pc' = [pc EXCEPT ![p] = "asset_insert"]
    /\ UNCHANGED <<insights, assets, studies, nextId, arg, resp, html, out, audit, users>>

\* Line 484: super().save() inserts the row; slug is a unique column.
AssetInsert(p) ==
    /\ pc[p] = "asset_insert"
    /\ LET row == [id |-> Cardinality(assets) + 1, title |-> arg[p].title,
                   slug |-> loc[p].slug]
       IN  IF SlugTaken(assets, row)
           THEN /\ resp' = Response("MediaAsset.save", "IntegrityError")
                /\ assets' = assets
           ELSE /\ resp' = Response("MediaAsset.save", "ok")
                /\ assets' = assets \cup {row}
    /\ Return(p)
    /\ UNCHANGED <<insights, studies, nextId, arg, html, out, audit, users>>

\* ------------------------------------------------------------------------
\* CaseStudy.save() of a new case study with a blank slug
\* ------------------------------------------------------------------------
CaseStudySave(p) ==
    /\ pc[p] = "study_save"
    /\ LET row == [id |-> Cardinality(studies) + 1, title |-> arg[p].title,
                   slug |-> Take(slugify(arg[p].title), CaseStudySlugMax)]
       IN  IF SlugTaken(studies, row)
           THEN /\ resp' = Response("CaseStudy.save", "IntegrityError")
                /\ studies' = studies
           ELSE /\ resp' = Response("CaseStudy.save", "ok")
                /\ studies' = studies \cup {row}
    /\ Return(p)
    /\ UNCHANGED <<insights, assets, nextId, arg, html, out, audit, users>>

\* ------------------------------------------------------------------------
\* Insight rows: creation through Insight.save()
\* ------------------------------------------------------------------------

NewInsight(title, blocks) ==
    [id |-> nextId, service |-> "facility", title |-> title, slug |-> <<>>,
     body |-> EmptyBody, blocks |-> blocks, is_active |-> TRUE,
     published |-> TRUE, published_at |-> 0, author |-> ""]

\* insight.save() of a row built from the form (no slug field in the form).
InsertInsight(op, row) ==
    LET insight == InsightToWrite(row)
    IN  IF SlugTaken(insights, insight)
        THEN /\ resp' = Response(op, "IntegrityError")
             /\ UNCHANGED <<insights, nextId>>
        ELSE /\ resp' = Response(op, "ok")
             /\ insights' = insights \cup {insight}
             /\ nextId' = nextId + 1

\* Insight.save() of a new row whose title is the process's input.
InsightSave(p) ==
    /\ pc[p] = "insight_save"
    /\ InsertInsight("Insight.save", NewInsight(arg[p].title, EmptyDict))
    /\ Return(p)
    /\ UNCHANGED <<assets, studies, arg, html, out, audit, users>>

\* `if obj.published and not obj.published_at: obj.published_at = now`
Publish(row, published) ==
    [row EXCEPT !.published = published,
                !.published_at = IF published /\ @ = 0 THEN timezone_now ELSE @]

\* A posted blocks value that is not JSON; json.loads and the form's
\* JSONField (InsightForm.blocks) accept every other value of the model.
InvalidJSON == [raw |-> "{"]

\* A parser that takes every text for JSON.
AnyText(posted) == TRUE

IsJSON(posted) == "raw" \notin DOMAIN posted

\* `try: blocks = json.loads(...) except json.JSONDecodeError: pass`
LoadedBlocks(posted, kept) == IF IsJSON(posted) THEN posted ELSE kept

\* InsightForm(request.POST).is_valid()
form_is_valid(posted) == IsJSON(posted)

\* A view that leaves the author of the new insight empty.
KeepAuthor(row, user) == row

\* `insight.author = request.user`
SetAuthor(row, user) == [row EXCEPT !.author = user]

\* dashboard_insight_create (POST): the decorator, the form, the author and
\* insight.save().
dashboard_insight_create(p, user, title, posted, published) ==
    /\ pc[p] = "idle"
    /\ IF blog_author_required(user) # "ok"
       THEN /\ resp' = Response("dashboard_insight_create", blog_author_required(user))
            /\ UNCHANGED <<insights, nextId>>
       ELSE IF ~form_is_valid(posted)
       THEN /\ resp' = Response("dashboard_insight_create", "invalid")
            /\ UNCHANGED <<insights, nextId>>
       ELSE /\ nextId <= MaxId
            /\ InsertInsight("dashboard_insight_create",
                             SetAuthor(Publish(NewInsight(title,
                                                          LoadedBlocks(posted, EmptyDict)),
                                               published),
                                       user))
    /\ UNCHANGED <<assets, studies, pc, arg, loc, html, out, audit, users>>

\* dashboard_insights_list: the decorator, then the page of all insights.
dashboard_insights_list(p, user) ==
    /\ pc[p] = "idle"
    /\ resp' = Response("dashboard_insights_list", blog_author_required(user))
    /\ UNCHANGED <<insights, assets, studies, nextId, pc, arg, loc, html, out, audit,
                   users>>

RowOf(id) == CHOOSE r \in insights : r.id = id
HasRow(id) == \E r \in insights : r.id = id

\* `[]`, a JSON value that is not `{}` and that Python takes as false
EmptyList == [version |-> "[]", blocks |-> <<>>]

\* `not insight.blocks`
IsFalsy(blocks) == blocks \in {EmptyDict, EmptyList}

\* The test on the body alone: an insight with blocks is converted again.
HasBody(row) == row.body # EmptyBody

\* `insight.body and not insight.blocks`
NeedsConversion(row) == row.body # EmptyBody /\ IsFalsy(row.blocks)

\* filter(body__isnull=False).exclude(body='').filter(blocks={})
InsightsToConvert(rows) == {r \in rows : r.body # EmptyBody /\ r.blocks = EmptyDict}

\* dashboard_insight_edit: the decorator, the conversion on opening (lines
\* 879-885), then, for a POST of a valid form, lines 887-933.
dashboard_insight_edit(p, user, id, method, title, posted, published) ==
    /\ pc[p] = "idle"
    /\ IF blog_author_required(user) # "ok"
       THEN /\ resp' = Response("dashboard_insight_edit", blog_author_required(user))
            /\ insights' = insights
       ELSE IF ~HasRow(id)
       THEN /\ resp' = Response("dashboard_insight_edit", "404")
            /\ insights' = insights
       ELSE LET row == RowOf(id)
                needs == NeedsConversion(row)
                conv == views_html_to_editorjs_blocks(row.body)
                converted == InsightToWrite([row EXCEPT !.blocks = conv.doc])
                insight == IF needs THEN converted ELSE row
                rows1 == IF needs THEN Written(insights, converted) ELSE insights
                edited == InsightToWrite(
                              Publish([insight EXCEPT
                                           !.title = title,
                                           !.blocks = LoadedBlocks(posted, @)],
                                      published))
            IN  IF needs /\ conv.raised # ""
                THEN /\ resp' = Response("dashboard_insight_edit", conv.raised)
                     /\ insights' = insights
                ELSE IF needs /\ SlugTaken(insights, converted)
                THEN /\ resp' = Response("dashboard_insight_edit", "IntegrityError")
                     /\ insights' = insights
                ELSE IF method = "GET"
                THEN /\ resp' = Response("dashboard_insight_edit", "ok")
                     /\ insights' = rows1
                ELSE IF ~form_is_valid(posted)
                THEN /\ resp' = Response("dashboard_insight_edit", "invalid")
                     /\ insights' = rows1
                ELSE IF SlugTaken(rows1, edited)
                THEN /\ resp' = Response("dashboard_insight_edit", "IntegrityError")
                     /\ insights' = rows1
                ELSE /\ resp' = Response("dashboard_insight_edit", "ok")
                     /\ insights' = Written(rows1, edited)
    /\ UNCHANGED <<assets, studies, nextId, pc, arg, loc, html, out, audit, users>>

\* dashboard_insight_toggle_active (POST), one database query per step: the
\* decorator and get_object_or_404.
dashboard_insight_toggle_active(p, user, id) ==
    /\ pc[p] = "idle"
    /\ IF admin_required(user) # "ok"
       THEN /\ resp' = Response("dashboard_insight_toggle_active", admin_required(user))
            /\ UNCHANGED <<pc, loc>>
       ELSE IF ~HasRow(id)
       THEN /\ resp' = Response("dashboard_insight_toggle_active", "404")
            /\ UNCHANGED <<pc, loc>>
       ELSE /\ Len(audit) < MaxLog
            /\ pc' = [pc EXCEPT ![p] = "toggle_save"]
            /\ loc' = [loc EXCEPT ![p].obj = RowOf(id), ![p].user = user]
            /\ resp' = resp
    /\ UNCHANGED <<insights, assets, studies, nextId, arg, html, out, audit, users>>

\* Lines 998-1000: the flag of the instance in memory is negated and the
\* instance is saved.
ToggleSave(p) ==
    /\ pc[p] = "toggle_save"
    /\ LET old_status == loc[p].obj.is_active
           insight == InsightToWrite([loc[p].obj EXCEPT !.is_active = ~old_status])
       IN  IF SlugTaken(insights, insight)
           THEN /\ resp' = Response("dashboard_insight_toggle_active", "IntegrityError")
                /\ insights' = insights
                /\ Return(p)
           ELSE /\ insights' = Written(insights, insight)
                /\ pc' = [pc EXCEPT ![p] = "toggle_log"]
                /\ loc' = [loc EXCEPT ![p].obj = insight,
                                      ![p].old_status = old_status]
                /\ resp' = resp
    /\ UNCHANGED <<assets, studies, nextId, arg, html, out, audit, users>>

\* Lines 1003-1023: InsightAuditLog.objects.create(action=action, ...) and
\* the redirect.
ToggleLog(p) ==
    /\ pc[p] = "toggle_log"
    /\ LET insight == loc[p].obj
       IN  audit' = Append(audit,
                AuditEntry(IF insight.is_active THEN "activate" ELSE "deactivate",
                           insight, loc[p].user,
                           [service_slug |-> insight.service,
                            previous_status |-> loc[p].old_status,
                            new_status |-> insight.is_active]))
    /\ resp' = Response("dashboard_insight_toggle_active", "ok")
    /\ Return(p)
    /\ UNCHANGED <<insights, assets, studies, nextId, arg, html, out, users>>

\* The view stores the role only when it is one of ROLE_CHOICES.
SetListedRole(a, role) ==
    IF a.has_profile /\ role \in {"admin", "blog_author", "user"}
    THEN [a EXCEPT !.role = role]
    ELSE a

\* `if hasattr(user, 'profile'): user.profile.role = role;
\* user.profile.save()`
SetRole(a, role) == IF a.has_profile THEN [a EXCEPT !.role = role] ELSE a

\* dashboard_users_list: the decorator, then the page of all users.
dashboard_users_list(p, user) ==
    /\ pc[p] = "idle"
    /\ resp' = Response("dashboard_users_list", admin_required(user))
    /\ UNCHANGED <<insights, assets, studies, nextId, pc, arg, loc, html, out, audit,
                   users>>

\* dashboard_user_create (POST): UserCreationForm wants a username no
\* account has and two equal passwords; the role is read from the request.
dashboard_user_create(p, user, name, passwords_match, role) ==
    /\ pc[p] = "idle"
    /\ IF admin_required(user) # "ok"
       THEN /\ resp' = Response("dashboard_user_create", admin_required(user))
            /\ users' = users
       ELSE IF IsAuthenticated(name) \/ ~passwords_match
       THEN /\ resp' = Response("dashboard_user_create", "invalid")
            /\ users' = users
       ELSE /\ resp' = Response("dashboard_user_create", "ok")
            /\ users' = users \cup {SetRole(NewAccount(name), role)}
    /\ UNCHANGED <<insights, assets, studies, nextId, pc, arg, loc, html, out, audit>>

\* dashboard_user_edit: a POST stores the posted role in the profile.
dashboard_user_edit(p, user, name, method, role) ==
    /\ pc[p] = "idle"
    /\ IF admin_required(user) # "ok"
       THEN /\ resp' = Response("dashboard_user_edit", admin_required(user))
            /\ users' = users
       ELSE IF ~IsAuthenticated(name)
       THEN /\ resp' = Response("dashboard_user_edit", "404")
            /\ users' = users
       ELSE /\ resp' = Response("dashboard_user_edit", "ok")
            /\ users' = IF method = "POST"
                         THEN (users \ {Account(name)}) \cup {SetRole(Account(name), role)}
                         ELSE users
    /\ UNCHANGED <<insights, assets, studies, nextId, pc, arg, loc, html, out, audit>>

\* dashboard_user_delete: a superuser is never deleted; a POST deletes the
\* account, its profile with it, and nulls the author and actor columns
\* that point at it (on_delete=SET_NULL).
dashboard_user_delete(p, user, name, method) ==
    /\ pc[p] = "idle"
    /\ IF admin_required(user) # "ok"
       THEN /\ resp' = Response("dashboard_user_delete", admin_required(user))
            /\ UNCHANGED <<users, insights, audit>>
       ELSE IF ~IsAuthenticated(name)
       THEN /\ resp' = Response("dashboard_user_delete", "404")
            /\ UNCHANGED <<users, insights, audit>>
       ELSE IF Account(name).is_superuser
       THEN /\ resp' = Response("dashboard_user_delete", "superuser")
            /\ UNCHANGED <<users, insights, audit>>
       ELSE IF method = "POST"
       THEN /\ resp' = Response("dashboard_user_delete", "ok")
            /\ users' = users \ {Account(name)}
            /\ insights' = {IF r.author = name THEN [r EXCEPT !.author = ""] ELSE r :
                               r \in insights}
            /\ audit' = [i \in 1..Len(audit) |->
                             IF audit[i].actor = name
                             THEN [audit[i] EXCEPT !.actor = ""]
                             ELSE audit[i]]
       ELSE /\ resp' = Response("dashboard_user_delete", "ok")
            /\ UNCHANGED <<users, insights, audit>>
    /\ UNCHANGED <<assets, studies, nextId, pc, arg, loc, html, out>>

\* dashboard_insight_delete, one database query per step: the decorator and
\* get_object_or_404; a GET renders the confirmation page.
dashboard_insight_delete(p, user, id, method) ==
    /\ pc[p] = "idle"
    /\ IF blog_author_required(user) # "ok"
       THEN /\ resp' = Response("dashboard_insight_delete", blog_author_required(user))
            /\ UNCHANGED <<pc, loc>>
       ELSE IF ~HasRow(id)
       THEN /\ resp' = Response("dashboard_insight_delete", "404")
            /\ UNCHANGED <<pc, loc>>
       ELSE IF method = "POST"
       THEN /\ Len(audit) < MaxLog
            /\ pc' = [pc EXCEPT ![p] = "delete_log"]
            /\ loc' = [loc EXCEPT ![p].obj = RowOf(id), ![p].user = user]
            /\ resp' = resp
       ELSE /\ resp' = Response("dashboard_insight_delete", "ok")
            /\ UNCHANGED <<pc, loc>>
    /\ UNCHANGED <<insights, assets, studies, nextId, arg, html, out, audit, users>>

\* Lines 970-983: InsightAuditLog.objects.create(action='delete', ...).
DeleteLog(p) ==
    /\ pc[p] = "delete_log"
    /\ audit' = Append(audit, AuditEntry("delete", loc[p].obj, loc[p].user,
                                         [service_slug |-> loc[p].obj.service]))
    /\ pc' = [pc EXCEPT ![p] = "delete_row"]
    /\ UNCHANGED <<insights, assets, studies, nextId, arg, loc, resp, html, out, users>>

\* Lines 985-987: insight.delete() and the redirect.
DeleteRow(p) ==
    /\ pc[p] = "delete_row"
    /\ insights' = {r \in insights : r.id # loc[p].obj.id}
    /\ resp' = Response("dashboard_insight_delete", "ok")
    /\ Return(p)
    /\ UNCHANGED <<assets, studies, nextId, arg, html, out, audit, users>>

\* The rows the convert-all form visits, newest first, until one fails.
RECURSIVE ConvertAll(_, _)
ConvertAll(rows, todo) ==
    IF todo = {} THEN [rows |-> rows, status |-> "ok"]
    ELSE LET row == CHOOSE r \in todo : \A q \in todo : q.id <= r.id
             conv == views_html_to_editorjs_blocks(row.body)
             insight == InsightToWrite([row EXCEPT !.blocks = conv.doc])
         IN  IF conv.raised # "" THEN [rows |-> rows, status |-> conv.raised]
             ELSE IF SlugTaken(rows, insight)
             THEN [rows |-> rows, status |-> "IntegrityError"]
             ELSE ConvertAll(Written(rows, insight), todo \ {row})

\* dashboard_insight_import_html (POST); id 0 stands for no insight_id.
dashboard_insight_import_html(p, user, id) ==
    /\ pc[p] = "idle"
    /\ IF blog_author_required(user) # "ok"
       THEN /\ resp' = Response("dashboard_insight_import_html",
                                blog_author_required(user))
            /\ insights' = insights
       ELSE IF id = 0
       THEN LET done == ConvertAll(insights, InsightsToConvert(insights))
            IN  /\ resp' = Response("dashboard_insight_import_html", done.status)
                /\ insights' = done.rows
       ELSE IF ~HasRow(id)
       THEN /\ resp' = Response("dashboard_insight_import_html", "not found")
            /\ insights' = insights
       ELSE LET done == ConvertAll(insights, {r \in {RowOf(id)} : NeedsConversion(r)})
            IN  /\ resp' = Response("dashboard_insight_import_html", done.status)
                /\ insights' = done.rows
    /\ UNCHANGED <<assets, studies, nextId, pc, arg, loc, html, out, audit, users>>

\* ------------------------------------------------------------------------
\* create_insights.seed_insights, one database query per step
\* ------------------------------------------------------------------------

\* Lines 616-628: Service.objects.get, the optional reset, the first post.
seed_insights(p, service_slug, reset) ==
    /\ pc[p] = "idle"
    /\ nextId <= MaxId
    /\ IF service_slug \notin Services
       THEN /\ resp' = Response("seed_insights", "service not found")
            /\ UNCHANGED <<insights, pc, arg>>
       ELSE /\ insights' = IF reset
                           THEN {r \in insights : r.service # service_slug}
                           ELSE insights
            /\ pc' = [pc EXCEPT ![p] = "unique_slug"]
            /\ arg' = [arg EXCEPT ![p] = [title |-> POSTS[1].title, k |-> 1]]
            /\ resp' = resp
    /\ UNCHANGED <<assets, studies, nextId, loc, html, out, audit, users>>

\* The rows get(service=svc, title=p["title"]) matches.
Matches(p) ==
    {r \in insights : r.service = "facility" /\ r.title = arg[p].title}

\* The end of one turn of `for p in POSTS`; after the last, the script ends.
NextPost(p) ==
    IF arg[p].k < Len(POSTS)
    THEN /\ pc' = [pc EXCEPT ![p] = "unique_slug"]
         /\ loc' = [loc EXCEPT ![p] = NoLocals]
         /\ arg' = [arg EXCEPT ![p] = [title |-> POSTS[arg[p].k + 1].title,
                                       k |-> arg[p].k + 1]]
         /\ resp' = resp
    ELSE /\ Return(p)
         /\ arg' = [arg EXCEPT ![p] = NoArg]
         /\ resp' = Response("seed_insights", "ok")

\* An exception leaves seed_insights.
SeedRaise(p, exc) ==
    /\ Return(p)
    /\ arg' = [arg EXCEPT ![p] = NoArg]
    /\ resp' = Response("seed_insights", exc)

\* get_or_create: the first get().
GetOrCreateGet(p) ==
    /\ pc[p] = "get_or_create"
    /\ LET found == Matches(p)
       IN  IF found = {}
           THEN /\ pc' = [pc EXCEPT ![p] = "create"]
                /\ UNCHANGED <<loc, arg, resp>>
           ELSE IF Cardinality(found) = 1
           THEN /\ loc' = [loc EXCEPT ![p].obj = CHOOSE r \in found : TRUE]
                /\ pc' = [pc EXCEPT ![p] = "update"]
                /\ UNCHANGED <<arg, resp>>
           ELSE SeedRaise(p, "MultipleObjectsReturned")
    /\ UNCHANGED <<insights, assets, studies, nextId, html, out, audit, users>>

\* The row create(**defaults) inserts for the post in hand.
SeedRow(p) ==
    LET post == POSTS[arg[p].k]
    IN  [id |-> nextId, service |-> "facility", title |-> post.title,
         slug |-> loc[p].slug, body |-> post.body,
         blocks |-> seed_html_to_editorjs_blocks(post.body).doc,
         is_active |-> TRUE, published |-> TRUE, published_at |-> timezone_now,
         author |-> ""]

\* create(**defaults) that trusts the slug it was given to be free.
CreateUnchecked(p) ==
    /\ pc[p] = "create"
    /\ nextId <= MaxId
    /\ insights' = insights \cup {InsightToWrite(SeedRow(p))}
    /\ nextId' = nextId + 1
    /\ NextPost(p)
    /\ UNCHANGED <<assets, studies, html, out, audit, users>>

\* get_or_create: create(**defaults) with the slug unique_slug returned.
GetOrCreateCreate(p) ==
    /\ pc[p] = "create"
    /\ LET insight == InsightToWrite(SeedRow(p))
       IN  IF SlugTaken(insights, insight)
           THEN /\ pc' = [pc EXCEPT ![p] = "conflict"]
                /\ UNCHANGED <<insights, nextId, arg, loc, resp>>
           ELSE /\ nextId <= MaxId
                /\ insights' = insights \cup {insight}
                /\ nextId' = nextId + 1
                /\ NextPost(p)
    /\ UNCHANGED <<assets, studies, html, out, audit, users>>

\* get_or_create: after the IntegrityError, get() once more, else re-raise.
GetOrCreateRetry(p) ==
    /\ pc[p] = "conflict"
    /\ LET found == Matches(p)
       IN  IF found = {}
           THEN SeedRaise(p, "IntegrityError")
           ELSE IF Cardinality(found) = 1
           THEN /\ loc' = [loc EXCEPT ![p].obj = CHOOSE r \in found : TRUE]
                /\ pc' = [pc EXCEPT ![p] = "update"]
                /\ UNCHANGED <<arg, resp>>
           ELSE SeedRaise(p, "MultipleObjectsReturned")
    /\ UNCHANGED <<insights, assets, studies, nextId, html, out, audit, users>>

\* Lines 645-655: the row found is refreshed from the post and saved.
SeedUpdate(p) ==
    /\ pc[p] = "update"
    /\ LET post == POSTS[arg[p].k]
           insight == InsightToWrite(
               [loc[p].obj EXCEPT
                  !.body = post.body,
                  !.blocks = seed_html_to_editorjs_blocks(post.body).doc,
                  !.published = TRUE,
                  !.published_at = IF @ = 0 THEN timezone_now ELSE @])
       IN  IF SlugTaken(insights, insight)
           THEN /\ SeedRaise(p, "IntegrityError")
                /\ insights' = insights
           ELSE /\ insights' = Written(insights, insight)
                /\ NextPost(p)
    /\ UNCHANGED <<assets, studies, nextId, html, out, audit, users>>

\* ------------------------------------------------------------------------
\* The site: an empty database, then the requests of one worker and the
\* steps of one run of the seed script, while a second worker serves
\* creations
\* ------------------------------------------------------------------------

Init ==
    /\ insights = {}
    /\ assets = {}
    /\ studies = {}
    /\ nextId = 1
    /\ pc = [p \in Procs |-> "idle"]
    /\ arg = [p \in Procs |-> NoArg]
    /\ loc = [p \in Procs |-> NoLocals]
    /\ resp = Response("", "")
    /\ html = EmptyBody
    /\ out = Returned(<<>>)
    /\ audit = <<>>
    /\ users = Accounts

Ids == 1..MaxId
Posted == {EmptyDict, PostedDoc}

SeedSteps(p) ==
    \/ \E s \in ServiceArgs, reset \in BOOLEAN : seed_insights(p, s, reset)
    \/ UniqueSlugFirst(p)
    \/ UniqueSlugLoop(p)
    \/ GetOrCreateGet(p)
    \/ GetOrCreateCreate(p)
    \/ GetOrCreateRetry(p)
    \/ SeedUpdate(p)

Next ==
    \E p \in {"p1"} :
        \/ SeedSteps(p)
        \/ \E t \in DashTitles, b \in Posted :
               dashboard_insight_create(p, "admin", t, b, TRUE)
        \/ \E id \in Ids, m \in {"GET", "POST"}, t \in DashTitles, b \in Posted :
               dashboard_insight_edit(p, "admin", id, m, t, b, TRUE)
        \/ \E id \in Ids : dashboard_insight_toggle_active(p, "admin", id)
        \/ ToggleSave(p)
        \/ ToggleLog(p)
        \/ \E id \in Ids, m \in {"GET", "POST"} :
               dashboard_insight_delete(p, "admin", id, m)
        \/ DeleteLog(p)
        \/ DeleteRow(p)
        \/ \E id \in {0} \cup Ids : dashboard_insight_import_html(p, "admin", id)
        \/ \E t \in DashTitles : dashboard_insight_create("p2", "admin", t, PostedDoc, TRUE)

Spec == Init /\ [][Next]_vars

\* ------------------------------------------------------------------------
\* Concurrent creations and deletions: two processes, each a run of the
\* seed script or a dashboard request, interleaved at the database queries
\* ------------------------------------------------------------------------

NextRace ==
    \E p \in Procs :
        \/ SeedSteps(p)
        \/ \E t \in DashTitles : dashboard_insight_create(p, "admin", t, PostedDoc, TRUE)
        \/ \E id \in Ids : dashboard_insight_delete(p, "admin", id, "POST")
        \/ DeleteLog(p)
        \/ DeleteRow(p)

SpecRace == Init /\ [][NextRace]_vars

\* ------------------------------------------------------------------------
\* The allocators as functions: one call on a given title, against a table
\* holding any of the slugs the call may try
\* ------------------------------------------------------------------------

Rep(c, n) == [i \in 1..n |-> c]

RECURSIVE SeqsOfLen(_, _)
SeqsOfLen(S, n) ==
    IF n = 0 THEN {<<>>}
    ELSE {Append(s, c) : s \in SeqsOfLen(S, n - 1), c \in S}

TailChars == {"a", "B", " ", "-", "_", "!"}
Tails == UNION {SeqsOfLen(TailChars, n) : n \in 0..MaxTail}

AllocOps == {"unique_slug", "asset_save", "insight_save", "study_save"}

\* The slice length and the title column width of each operation.
SliceOf(op) ==
    CASE op = "unique_slug" -> SeedSlugMax
      [] op = "asset_save" -> AssetSlugMax
      [] op = "insight_save" -> InsightSlugMax
      [] op = "study_save" -> CaseStudySlugMax
WidthOf(op) ==
    CASE op = "unique_slug" -> InsightTitleMax
      [] op = "asset_save" -> AssetTitleMax
      [] op = "insight_save" -> InsightTitleMax
      [] op = "study_save" -> CaseStudyTitleMax

\* Titles for op: a free tail, alone or after a run of letters that brings
\* the slug to the slice length (ligatures where the title column is
\* narrower than the slice).
AllocTitles(op) ==
    LET half == SliceOf(op) \div 2
        pads == IF SliceOf(op) <= WidthOf(op)
                THEN {Rep("a", n) : n \in {0, SliceOf(op) - 1, SliceOf(op)}}
                ELSE {<<>>, Rep("LIG_FI", half - 1) \o <<"a">>, Rep("LIG_FI", half)}
    IN  {t \in {pad \o tail : pad \in pads, tail \in Tails} : Len(t) <= WidthOf(op)}

\* The slugs a call on title t may look up.
Tried(op, t) ==
    CASE op = "unique_slug" ->
           {UniqueSlugSeed(t), Suffixed(UniqueSlugSeed(t), 2),
            Suffixed(UniqueSlugSeed(t), 3)}
      [] op = "asset_save" ->
           {Take(slugify(t), AssetSlugMax)}
           \cup {Take(Suffixed(Take(slugify(t), AssetSlugMax), n), AssetSlugMax) :
                   n \in 1..2}
      [] op = "insight_save" -> {Take(slugify(t), InsightSlugMax)}
      [] op = "study_save" -> {Take(slugify(t), CaseStudySlugMax)}

\* A table of rows holding the slugs S, with primary keys from n.
RECURSIVE InsightRows(_, _)
InsightRows(S, n) ==
    IF S = {} THEN {}
    ELSE LET s == CHOOSE x \in S : TRUE
         IN  {[NoRow EXCEPT !.id = n, !.service = "facility", !.title = <<"t">>,
                            !.slug = s, !.is_active = TRUE,
                            !.published = TRUE, !.published_at = n]}
             \cup InsightRows(S \ {s}, n + 1)
RECURSIVE PlainRows(_, _)
PlainRows(S, n) ==
    IF S = {} THEN {}
    ELSE LET s == CHOOSE x \in S : TRUE
         IN  {[id |-> n, title |-> <<"t">>, slug |-> s]} \cup PlainRows(S \ {s}, n + 1)

InitAlloc ==
    \E op \in AllocOps :
      \E t \in AllocTitles(op) :
        \E E \in SUBSET Tried(op, t) :
          /\ insights = IF op \in {"unique_slug", "insight_save"}
                        THEN InsightRows(E, 1) ELSE {}
          /\ assets = IF op = "asset_save" THEN PlainRows(E, 1) ELSE {}
          /\ studies = IF op = "study_save" THEN PlainRows(E, 1) ELSE {}
          /\ nextId = IF op \in {"unique_slug", "insight_save"}
                      THEN Cardinality(E) + 1 ELSE 1
          /\ pc = [p \in Procs |-> IF p = "p1" THEN op ELSE "idle"]
          /\ arg = [p \in Procs |-> IF p = "p1" THEN [title |-> t, k |-> 0] ELSE NoArg]
          /\ loc = [p \in Procs |-> NoLocals]
          /\ resp = Response("", "")
          /\ html = EmptyBody
          /\ out = Returned(<<>>)
          /\ audit = <<>>
          /\ users = Accounts

NextAlloc ==
    \E p \in {"p1"} :
        \/ UniqueSlugFirst(p)
        \/ UniqueSlugLoop(p)
        \/ AssetSaveBegin(p)
        \/ AssetSaveLoop(p)
        \/ AssetInsert(p)
        \/ InsightSave(p)
        \/ CaseStudySave(p)

SpecAlloc == InitAlloc /\ [][NextAlloc]_vars

\* ------------------------------------------------------------------------
\* The converters as functions: one call of either on a given HTML text
\* ------------------------------------------------------------------------

\* Lines of an HTML text at most.
MaxLines == 2

HtmlLines ==
    { <<>>, <<" ">>, <<"x">>,
      <<"<p>", "x", "</p>">>,
      <<"<p>", " ", "x">>,
      <<"<p>", " ", "</p>">>,
      <<"<p class>", "x", "</p>">>,
      <<"</p>", "x">>,
      <<"<h2>", "x", " ", "</h2>">>,
      <<"<h4>", "y", "</h4>">>,
      <<"<blockquote>", "x", "</blockquote>">>,
      <<"<table>", "x", "</table>">>,
      <<"<ul>", "<li>", "x", "</li>", "<li>", "</li>", "</ul>">>,
      <<"<li>", "y", "</li>">>,
      <<"<ul>", "<li>", "x", "</li>", "<li>", "y", "</li>", "</ul>">>,
      <<"<ul>", "<li>", "x", "<ol>", "<li>", "y", "</li>", "</ol>", "</li>",
        "<li>", "x", "</li>", "</ul>">>,
      <<"<ol>", "<li>", "x", "<strong>", "y", "</strong>", "</li>", "</ol>">>,
      <<"<body>", "<p>", "x", "<br>", "y", "</p>", "</body>">>,
      <<"<body>", "<div>", "x", "<h2>", "y">>,
      <<"<body>">>, <<"</body>">> }

\* A list laid out as in the bodies of POSTS: one tag or one item a line.
ListText ==
    << <<"<ul>">>, <<" ", " ", "<li>", "x", "</li>">>,
       <<" ", " ", "<li>", "y", "</li>">>, <<"</ul>">> >>

HtmlTexts == UNION {SeqsOfLen(HtmlLines, n) : n \in 1..MaxLines} \cup {ListText}

InitConv ==
    \E h \in HtmlTexts, f \in {"views_html_to_editorjs_blocks",
                               "seed_html_to_editorjs_blocks"} :
        /\ insights = {}
        /\ assets = {}
        /\ studies = {}
        /\ nextId = 1
        /\ pc = [p \in Procs |-> IF p = "p1" THEN f ELSE "idle"]
        /\ arg = [p \in Procs |-> NoArg]
        /\ loc = [p \in Procs |-> NoLocals]
        /\ resp = Response("", "")
        /\ html = h
        /\ out = Returned(<<>>)
        /\ audit = <<>>
        /\ users = Accounts

\* views.html_to_editorjs_blocks(html)
ViewsConvert(p) ==
    /\ pc[p] = "views_html_to_editorjs_blocks"
    /\ out' = views_html_to_editorjs_blocks(html)
    /\ pc' = [pc EXCEPT ![p] = "views_converted"]
    /\ UNCHANGED <<insights, assets, studies, nextId, arg, loc, resp, html, audit, users>>

\* create_insights.html_to_editorjs_blocks(html)
SeedConvert(p) ==
    /\ pc[p] = "seed_html_to_editorjs_blocks"
    /\ out' = seed_html_to_editorjs_blocks(html)
    /\ pc' = [pc EXCEPT ![p] = "seed_converted"]
    /\ UNCHANGED <<insights, assets, studies, nextId, arg, loc, resp, html, audit, users>>

NextConv == \E p \in {"p1"} : ViewsConvert(p) \/ SeedConvert(p)

SpecConv == InitConv /\ [][NextConv]_vars

\* ------------------------------------------------------------------------
\* Properties
\* ------------------------------------------------------------------------

\* C1: the slug an allocation returns names no row of its collection at
\* the instant it is returned: unique_slug's result is no slug of the
\* Insight table, and the slug MediaAsset.save leaves its loop with is no
\* slug of the MediaAsset table.
C1_ReturnedSlugIsFree ==
    \A p \in Procs :
        /\ pc[p] = "get_or_create" => loc[p].slug \notin Slugs(insights)
        /\ pc[p] = "asset_insert" => loc[p].slug \notin Slugs(assets)

\* MediaAsset.save has left its loop with a suffixed slug, its base taken.
C1_Witness ==
    /\ pc["p1"] = "asset_insert"
    /\ loc["p1"].seed \in Slugs(assets)
    /\ loc["p1"].slug # loc["p1"].seed

\* C2: in every state of the store, whatever the interleaving of seed
\* runs, dashboard creations and deletions, no two Insight rows share a
\* slug.
C2_NoSharedSlug ==
    \A r1 \in insights : \A r2 \in insights : r1.slug = r2.slug => r1.id = r2.id

\* Two rows live, and a creation has just been turned down by the store.
C2_Witness ==
    /\ Cardinality(insights) = 2
    /\ resp.status = "IntegrityError"
    /\ resp.op \in {"dashboard_insight_create", "seed_insights"}

C4_ConflictAndRerun ==
    [][\A p \in Procs :
         (/\ pc[p] = "create"
          /\ pc'[p] # "create"
          /\ loc[p].slug \in Slugs(insights))
         => /\ pc'[p] = "conflict"
            /\ insights' = insights
            /\ \A r1 \in insights' : \A r2 \in insights' :
                 r1.slug = r2.slug => r1.id = r2.id
            /\ unique_slug(insights', arg[p].title) # loc[p].slug
            /\ unique_slug(insights', arg[p].title) \notin Slugs(insights')]_vars

\* Two runs of the seed script took the same slug for free; the row of one
\* is in the table and the other has the conflict.
C4_Witness ==
    /\ pc["p1"] = "conflict"
    /\ \E r \in insights : r.slug = loc["p1"].slug /\ r.title = arg["p1"].title

\* C5: no creation of an Insight, by the seed script or by the dashboard,
\* ends in a conflict of the store: the slug of the new row was minted by
\* the collision-checking allocator.
C5_NoCreationConflict ==
    ~(/\ resp.status = "IntegrityError"
      /\ resp.op \in {"dashboard_insight_create", "seed_insights"})

\* C6: no empty slug is returned by an allocation or stored on an Insight;
\* a seed that normalizes to the empty string gives "post".
C6_NoEmptySlug ==
    /\ \A r \in insights : r.slug # <<>>
    /\ \A p \in Procs : pc[p] \in {"get_or_create", "create"} => loc[p].slug # <<>>

\* C7: an allocation loop ends.  Every lookup that sends the loop round
\* once more has found its candidate in the table, and the candidates of
\* one allocation differ from one another, so a loop still running has made
\* no more lookups than the table has rows.
C7_LoopEndsWithinStore ==
    \A p \in Procs :
        /\ pc[p] = "unique_slug_loop" => loc[p].probes <= Cardinality(insights)
        /\ pc[p] = "asset_loop" => loc[p].probes <= Cardinality(assets)

\* C8: no step changes the slug of an Insight row that stays in the table.
C8_SlugNeverChanges ==
    [][\A r1 \in insights : \A r2 \in insights' :
         r1.id = r2.id => r1.slug = r2.slug]_vars

\* C9: a slug taken from a title whose first candidate is free is in lower
\* case, over the slug alphabet, neither begins nor ends with the separator
\* and is no longer than its maximum: 60 from unique_slug, 220 on an Insight
\* saved by Insight.save, 240 on a CaseStudy.
SlugAlphabet == Lower \cup Digit \cup {"-", "_"}
WellShaped(s, max) ==
    /\ Len(s) <= max
    /\ \A i \in 1..Len(s) : s[i] \in SlugAlphabet
    /\ s # <<>> => (s[1] # "-" /\ s[Len(s)] # "-")
C9_SlugShape ==
    /\ (pc["p1"] = "get_or_create" /\ loc["p1"].probes = 1)
       => WellShaped(loc["p1"].slug, SeedSlugMax)
    /\ \A r \in insights :
         r.title = arg["p1"].title => WellShaped(r.slug, InsightSlugMax)
    /\ \A r \in studies :
         r.title = arg["p1"].title => WellShaped(r.slug, CaseStudySlugMax)

\* C10: either converter returns a block document for every HTML text and
\* never raises.
C10_NeverRaises == out.raised = ""

\* One of the two converters has run on the text in hand.
Converted == pc["p1"] \in {"views_converted", "seed_converted"}

\* A line holding one element of tag t and nothing else: <t>, text, </t>.
IsSimpleElement(line, t) ==
    /\ Len(line) >= 3
    /\ line[1] = Open(t)
    /\ line[Len(line)] = Close(t)
    /\ \A i \in 2..(Len(line) - 1) : ~IsTagAtom(line[i])
    /\ StripWs(SubSeq(line, 2, Len(line) - 1)) # <<>>
ElementText(line) == StripWs(SubSeq(line, 2, Len(line) - 1))

\* The elements of the text are the top-level elements of the document:
\* the text has no <body> tag, or opens with a line that is <body> alone.
HasBodyAtom(line) == \E i \in 1..Len(line) : line[i] \in {Open("body"), Close("body")}
TopLevelLines ==
    IF \A i \in 1..Len(html) : ~HasBodyAtom(html[i])
    THEN 1..Len(html)
    ELSE IF html[1] = <<Open("body")>> /\ \A i \in 2..Len(html) : ~HasBodyAtom(html[i])
    THEN 2..Len(html)
    ELSE {}
BlocksOut == {out.doc.blocks[i] : i \in 1..Len(out.doc.blocks)}

\* C11: in the document a conversion returns, every top-level hN element
\* has its header block of level N with the stripped text, every blockquote
\* its quote block, every p its paragraph block, every ul an unordered list
\* block and every ol an ordered list block.
C11_TagDispatch ==
    (Converted /\ out.raised = "")
    => \A i \in TopLevelLines :
         /\ \A n \in 1..6 :
              IsSimpleElement(html[i], <<"h1", "h2", "h3", "h4", "h5", "h6">>[n])
              => Header(ElementText(html[i]), n) \in BlocksOut
         /\ IsSimpleElement(html[i], "blockquote")
              => Quote(ElementText(html[i])) \in BlocksOut
         /\ IsSimpleElement(html[i], "p")
              => Paragraph(ElementText(html[i])) \in BlocksOut
         /\ (html[i] # <<>> /\ html[i][1] = Open("ul"))
              => \E b \in BlocksOut : b.type = "list" /\ b.style = "unordered"
         /\ (html[i] # <<>> /\ html[i][1] = Open("ol"))
              => \E b \in BlocksOut : b.type = "list" /\ b.style = "ordered"

\* The top-level elements of the text in hand, as the parser sees them: the
\* children of <body>, or of the document when the text has no <body>.
KnownTags == {"p", "h1", "h2", "h3", "h4", "h5", "h6", "blockquote", "ul", "ol"}
SourceRoot ==
    LET soup == BeautifulSoup(html)
        bodies == find_all(soup, "body")
    IN  IF bodies = <<>> THEN soup ELSE bodies[1]
SourceElements == ChildElements(SourceRoot)
IsWsNode(k) == k.name = "#text" /\ k.text[1] \in HtmlSpace
OnlyText(e) ==
    /\ \A i \in 1..Len(e.kids) : e.kids[i].name = "#text"
    /\ StripWs(get_text(e)) # <<>>
\* A non-empty p, hN or blockquote holding text only, or a list holding
\* non-empty li elements of text only.
PlainElement(e) ==
    /\ e.name \in KnownTags
    /\ IF e.name \in {"ul", "ol"}
       THEN /\ \E i \in 1..Len(e.kids) : e.kids[i].name = "li"
            /\ \A i \in 1..Len(e.kids) :
                 \/ IsWsNode(e.kids[i])
                 \/ (e.kids[i].name = "li" /\ OnlyText(e.kids[i]))
       ELSE OnlyText(e)
OnlyPlainElements ==
    /\ TopLevelLines # {}
    /\ SourceElements # <<>>
    /\ \A i \in 1..Len(SourceRoot.kids) :
         IsWsNode(SourceRoot.kids[i]) \/ PlainElement(SourceRoot.kids[i])
ItemsOf(e) ==
    LET lis == SelectSeq(e.kids, LAMBDA k : k.name = "li")
    IN  [i \in 1..Len(lis) |-> StripWs(get_text(lis[i]))]
ExpectedBlock(e) ==
    CASE e.name = "p" -> Paragraph(StripWs(get_text(e)))
      [] e.name = "blockquote" -> Quote(StripWs(get_text(e)))
      [] e.name = "ul" -> List("unordered", ItemsOf(e))
      [] e.name = "ol" -> List("ordered", ItemsOf(e))
      [] OTHER -> Header(StripWs(get_text(e)),
                         CHOOSE n \in 1..6 :
                           e.name = <<"h1", "h2", "h3", "h4", "h5", "h6">>[n])

\* C12: for a text made only of non-empty p, hN, blockquote and list
\* elements, the document returned holds one block for each top-level
\* element, in the order of the text; a list gives one list block holding
\* all its li items.
C12_OneBlockPerElement ==
    (Converted /\ out.raised = "" /\ OnlyPlainElements)
    => out.doc.blocks =
         [k \in 1..Len(SourceElements) |-> ExpectedBlock(SourceElements[k])]

\* A line of text outside any tag.
IsPlainText(line) ==
    /\ StripWs(line) # <<>>
    /\ \A i \in 1..Len(line) : ~IsTagAtom(line[i])
UnknownTags == Tags \ (KnownTags \cup {"li", "body", "br"})

\* C13: no visible text is dropped.  In the document a conversion returns,
\* every top-level line of text outside any tag has its paragraph block
\* holding that text, and every top-level element of a tag the converter
\* does not know has a paragraph block holding its visible text.
C13_NoTextDropped ==
    (Converted /\ out.raised = "")
    => \A i \in TopLevelLines :
         /\ IsPlainText(html[i]) => Paragraph(StripWs(html[i])) \in BlocksOut
         /\ \A t \in UnknownTags :
              IsSimpleElement(html[i], t)
              => Paragraph(ElementText(html[i])) \in BlocksOut

\* C14: no block of a returned document has empty content: a header, quote
\* or paragraph block has a non-empty text, and a list block has at least
\* one item and no empty item.
C14_NoEmptyBlock ==
    Converted
    => \A b \in BlocksOut :
         IF b.type = "list"
         THEN b.items # <<>> /\ \A i \in 1..Len(b.items) : b.items[i] # <<>>
         ELSE b.text # <<>>

\* The li elements below a node at every depth, in the order of the text.
RECURSIVE LisUnder(_)
RECURSIVE LisUnderKids(_, _)
LisUnder(node) == LisUnderKids(node.kids, 1)
LisUnderKids(kids, i) ==
    IF i > Len(kids) THEN <<>>
    ELSE (IF kids[i].name = "li" THEN <<kids[i]>> ELSE <<>>)
         \o LisUnder(kids[i]) \o LisUnderKids(kids, i + 1)
HasNestedList(e) ==
    \E i \in 1..Len(LisUnder(e)) :
        \E j \in 1..Len(LisUnder(e)[i].kids) :
            LisUnder(e)[i].kids[j].name \in {"ul", "ol"}
\* The top-level lists of the text that hold an li, and the list blocks of
\* the document returned.
TopLists ==
    SelectSeq(SourceElements,
              LAMBDA e : e.name \in {"ul", "ol"} /\ LisUnder(e) # <<>>)
ListBlocks == SelectSeq(out.doc.blocks, LAMBDA b : b.type = "list")

OnlyWhiteSpace == \A i \in 1..Len(html) : \A j \in 1..Len(html[i]) : html[i][j] = " "

\* C16: for a text that is empty or holds only white space, either
\* converter returns, without raising, a document whose blocks are the
\* empty sequence and whose version is "2.28.2".
C16_BlankGivesEmptyDocument ==
    (Converted /\ OnlyWhiteSpace)
    => /\ out.raised = ""
       /\ out.doc.blocks = <<>>
       /\ out.doc.version = "2.28.2"

\* A text of a line of white space and an empty line was converted.
C16_Witness ==
    /\ Converted
    /\ html = << <<" ">>, <<>> >>
    /\ out.doc.blocks = <<>>

\* ------------------------------------------------------------------------
\* templatetags/editorjs.py: the renderer of stored block documents
\*
\* A block is a record holding its "type" and the keys of its "data".  The
\* page rendered is a sequence of pieces: markup of the renderer's own
\* f-strings, text of the block interpolated between tags, and text of the
\* block interpolated into an attribute value.  The string returned is the
\* pieces joined; in it the markup of the renderer and markup held by the
\* block's text are the same characters.
\* ------------------------------------------------------------------------

\* d.get(key, default)
Get(d, key, default) == IF key \in DOMAIN d THEN d[key] ELSE default

Markup(tag) == [ctx |-> "markup", atoms |-> <<tag>>]
Text(atoms) == [ctx |-> "text", atoms |-> atoms]
Attr(atoms) == [ctx |-> "attr", atoms |-> atoms]

\* "".join(parts)
RECURSIVE JoinPieces(_, _)
JoinPieces(parts, i) ==
    IF i > Len(parts) THEN <<>> ELSE parts[i] \o JoinPieces(parts, i + 1)

ListItem(i) == <<Markup("<li>"), Text(i), Markup("</li>")>>
HeadCell(c) == <<Markup("<th class>"), Text(c), Markup("</th>")>>
BodyCell(c) == <<Markup("<td class>"), Text(c), Markup("</td>")>>
BodyRow(r) ==
    <<Markup("<tr>")>> \o JoinPieces([k \in 1..Len(r) |-> BodyCell(r[k])], 1)
                      \o <<Markup("</tr>")>>

\* A renderer that shows a block of a kind it does not know as a paragraph.
RenderUnknownAsParagraph(b) ==
    <<Markup("<p class>"), Text(Get(b, "text", <<>>)), Markup("</p>")>>

\* _render_block(b)
render_block(b) ==
    LET t == Get(b, "type", "None")
    IN  IF t = "paragraph"
        THEN <<Markup("<p class>"), Text(Get(b, "text", <<>>)), Markup("</p>")>>
        ELSE IF t = "header"
        THEN (IF Get(b, "level", 2) = 3
              THEN <<Markup("<h3 class>"), Text(Get(b, "text", <<>>)), Markup("</h3>")>>
              ELSE <<Markup("<h2 class>"), Text(Get(b, "text", <<>>)), Markup("</h2>")>>)
        ELSE IF t = "list"
        THEN LET tag == IF Get(b, "style", "unordered") = "unordered"
                        THEN "ul" ELSE "ol"
             IN  <<Markup("<" \o tag \o " class>")>>
                 \o JoinPieces([k \in 1..Len(Get(b, "items", <<>>)) |->
                                  ListItem(Get(b, "items", <<>>)[k])], 1)
                 \o <<Markup("</" \o tag \o ">")>>
        ELSE IF t = "quote"
        THEN <<Markup("<blockquote class>"), Text(Get(b, "text", <<>>)),
               Markup("<div class>"), Text(Get(b, "caption", <<>>)),
               Markup("</div>"), Markup("</blockquote>")>>
        ELSE IF t = "code"
        THEN <<Markup("<pre class>"), Markup("<code>"), Text(Get(b, "code", <<>>)),
               Markup("</code>"), Markup("</pre>")>>
        ELSE IF t = "table"
        THEN LET rows == Get(b, "content", <<>>)
                 head == IF rows = <<>> THEN <<>>
                         ELSE <<Markup("<thead>"), Markup("<tr>")>>
                              \o JoinPieces([k \in 1..Len(rows[1]) |-> HeadCell(rows[1][k])], 1)
                              \o <<Markup("</tr>"), Markup("</thead>")>>
                 body == IF rows = <<>> THEN <<>>
                         ELSE <<Markup("<tbody>")>>
                              \o JoinPieces([k \in 1..(Len(rows) - 1) |->
                                               BodyRow(rows[k + 1])], 1)
                              \o <<Markup("</tbody>")>>
             IN  <<Markup("<div class>"), Markup("<table class>")>> \o head \o body
                 \o <<Markup("</table>"), Markup("</div>")>>
        ELSE IF t = "image"
        THEN (IF Get(b, "url", <<>>) = <<>> THEN <<>>
              ELSE <<Markup("<figure class>"), Markup("<img src='"),
                     Attr(Get(b, "url", <<>>)), Markup("' alt='"),
                     Attr(Get(b, "alt", <<>>)), Markup("' loading class/>"),
                     Markup("<figcaption class>"), Text(Get(b, "caption", <<>>)),
                     Markup("</figcaption>"), Markup("</figure>")>>)
        ELSE IF t = "delimiter"
        THEN <<Markup("<hr class/>")>>
        ELSE <<>>

\* Markup a block's text may hold: a tag outside BLEACH_ALLOWED_TAGS, and a
\* tag inside it with its closing tag.
DataMarkup == {"<script>", "<strong>", "</strong>"}
BleachAllowedData == {"<strong>", "</strong>"}

\* The character references of "&", "<script>", "<strong>", "</strong>".
Escaped(a) ==
    CASE a = "&" -> "&amp;"
      [] a = "<script>" -> "&lt;script&gt;"
      [] a = "<strong>" -> "&lt;strong&gt;"
      [] a = "</strong>" -> "&lt;/strong&gt;"
      [] OTHER -> a

\* bleach.clean(html, tags, attributes, protocols, strip=False) on one
\* piece: the renderer's tags are all allowed and stay; in text an allowed
\* tag stays and anything else is escaped; an attribute value is escaped.
CleanPiece(piece) ==
    CASE piece.ctx = "markup" -> piece.atoms
      [] piece.ctx = "text" ->
           [i \in 1..Len(piece.atoms) |->
              IF piece.atoms[i] \in BleachAllowedData
              THEN piece.atoms[i] ELSE Escaped(piece.atoms[i])]
      [] piece.ctx = "attr" ->
           [i \in 1..Len(piece.atoms) |-> Escaped(piece.atoms[i])]
RawPiece(piece) == piece.atoms

\* render_editorjs(value) for a value that is a dict; bleach tells whether
\* `import bleach` succeeded.
render_editorjs(value, bleach) ==
    LET blocks == Get(value, "blocks", <<>>)
        pieces == JoinPieces([k \in 1..Len(blocks) |-> render_block(blocks[k])], 1)
    IN  IF bleach THEN JoinPieces([k \in 1..Len(pieces) |-> CleanPiece(pieces[k])], 1)
        ELSE JoinPieces([k \in 1..Len(pieces) |-> RawPiece(pieces[k])], 1)

\* Blocks of a document at most.
MaxBlocks == 2

\* Stored blocks: of every kind the renderer knows, as the converters and
\* the editor write them, and of kinds it does not know.
StoredBlocks ==
    { Paragraph(<<"x">>), Paragraph(<<"<script>">>),
      Paragraph(<<"<strong>", "y", "</strong>">>),
      Header(<<"x">>, 2), Header(<<"y">>, 3), Header(<<"&">>, 1),
      List("unordered", << <<"x">>, <<"<script>">> >>),
      List("ordered", << <<"y">> >>),
      [type |-> "quote", text |-> <<"x">>, caption |-> <<"&">>],
      [type |-> "code", code |-> <<"<script>">>],
      [type |-> "table",
       content |-> << << <<"x">> >>, << <<"y">>, <<"<script>">> >> >>],
      [type |-> "table", content |-> <<>>],
      [type |-> "image", url |-> <<"x">>, alt |-> <<"<script>">>, caption |-> <<"y">>],
      [type |-> "image", caption |-> <<"y">>],
      [type |-> "delimiter"],
      [type |-> "embed", text |-> <<"x">>],
      [text |-> <<"y">>] }
KnownKinds == {"paragraph", "header", "list", "quote", "code", "table",
               "image", "delimiter"}

StoredDocs ==
    {[version |-> "2.28.2", blocks |-> bs] :
       bs \in UNION {SeqsOfLen(StoredBlocks, n) : n \in 0..MaxBlocks}}

InitRender ==
    \E doc \in StoredDocs :
        /\ insights = {}
        /\ assets = {}
        /\ studies = {}
        /\ nextId = 1
        /\ pc = [p \in Procs |-> IF p = "p1" THEN "render_editorjs" ELSE "idle"]
        /\ arg = [p \in Procs |-> NoArg]
        /\ loc = [p \in Procs |-> NoLocals]
        /\ resp = Response("", "")
        /\ html = EmptyBody
        /\ out = [raised |-> "", doc |-> doc]
        /\ audit = <<>>
        /\ users = Accounts

\* {{ value|render_editorjs }}: the document in `out` is rendered to `html`.
RenderEditorjs(p, bleach) ==
    /\ pc[p] = "render_editorjs"
    /\ html' = <<render_editorjs(out.doc, bleach)>>
    /\ pc' = [pc EXCEPT ![p] = IF bleach THEN "rendered_clean" ELSE "rendered_raw"]
    /\ UNCHANGED <<insights, assets, studies, nextId, arg, loc, resp, out, audit, users>>

NextRender == \E p \in {"p1"}, bleach \in BOOLEAN : RenderEditorjs(p, bleach)

SpecRender == InitRender /\ [][NextRender]_vars

\* The page of a finished rendering.
Rendered == pc["p1"] \in {"rendered_clean", "rendered_raw"}
Page == html[1]
IsKnown(b) == Get(b, "type", "None") \in KnownKinds

\* C17: a block of a kind the renderer does not know renders to the empty
\* string, and the page is the renderings of the other blocks of the
\* document, in their stored order.
C17_UnknownKindsRenderNothing ==
    Rendered
    => /\ \A i \in 1..Len(out.doc.blocks) :
            ~IsKnown(out.doc.blocks[i]) => render_block(out.doc.blocks[i]) = <<>>
       /\ Page = render_editorjs(
                   [out.doc EXCEPT !.blocks = SelectSeq(out.doc.blocks, IsKnown)],
                   pc["p1"] = "rendered_clean")
       /\ LET known == SelectSeq(out.doc.blocks, IsKnown)
          IN  Page = JoinPieces(
                  [k \in 1..Len(known) |->
                      render_editorjs([blocks |-> <<known[k]>>],
                                      pc["p1"] = "rendered_clean")], 1)

\* A document of a block of unknown kind followed by a paragraph was
\* rendered to the paragraph alone.
C17_Witness ==
    /\ Rendered
    /\ Len(out.doc.blocks) = 2
    /\ ~IsKnown(out.doc.blocks[1])
    /\ out.doc.blocks[2] = Paragraph(<<"x">>)
    /\ Page = <<"<p class>", "x", "</p>">>

\* C18: no markup held by a block's data is in the page as markup: the
\* text of every block is escaped where it is interpolated.
C18_DataIsEscaped ==
    Rendered => \A i \in 1..Len(Page) : Page[i] \notin DataMarkup \cup {"&"}

\* ------------------------------------------------------------------------
\* The public views: service_detail and insight_detail
\* ------------------------------------------------------------------------

\* `[:4]`: the cards of a service page and the related insights of a post.
PageSize == 4

\* order_by("-published_at", "-created_at"); rows are created in the order
\* of their primary keys.
RECURSIVE order_by(_)
order_by(rows) ==
    IF rows = {} THEN <<>>
    ELSE LET first == CHOOSE r \in rows : \A q \in rows :
                          \/ q.published_at < r.published_at
                          \/ q.published_at = r.published_at /\ q.id <= r.id
         IN  <<first>> \o order_by(rows \ {first})

\* service_detail(request, slug): the status and context["insights"].
service_detail(slug) ==
    IF slug \notin Services THEN [status |-> "404", insights |-> <<>>]
    ELSE LET shown == {r \in insights : /\ r.service = slug
                                        /\ r.published
                                        /\ r.is_active
                                        /\ r.published_at # 0
                                        /\ r.published_at <= timezone_now}
         IN  [status |-> "200", insights |-> Take(order_by(shown), PageSize)]

\* path("insights/<slug:slug>/", ...): the slug converter wants one
\* character or more.
Routed(slug) == slug # <<>>

\* The lookup of insight_detail without its is_active filter.
InsightDetailAnyActivity(slug) ==
    LET found == {r \in insights : r.slug = slug /\ r.published}
    IN  IF ~Routed(slug) \/ found = {}
        THEN [status |-> "404", insight |-> NoRow, related |-> <<>>]
        ELSE [status |-> "200", insight |-> CHOOSE r \in found : TRUE,
              related |-> <<>>]

\* insight_detail(request, slug): the status, context["insight"] and
\* context["related"].
insight_detail(slug) ==
    LET found == {r \in insights : r.slug = slug /\ r.published /\ r.is_active}
        nothing == [status |-> "404", insight |-> NoRow, related |-> <<>>]
    IN  IF ~Routed(slug) \/ found = {} THEN nothing
        ELSE IF Cardinality(found) > 1
        THEN [nothing EXCEPT !.status = "MultipleObjectsReturned"]
        ELSE LET insight == CHOOSE r \in found : TRUE
                 others == {r \in insights : /\ r.service = insight.service
                                             /\ r.published
                                             /\ r.is_active
                                             /\ r.id # insight.id}
             IN  [status |-> "200", insight |-> insight,
                  related |-> Take(order_by(others), PageSize)]

\* GET /services/<slug>/
GetServiceDetail(p, slug) ==
    /\ pc[p] = "idle"
    /\ resp' = Response("service_detail", service_detail(slug).status)
    /\ UNCHANGED <<insights, assets, studies, nextId, pc, arg, loc, html, out, audit, users>>

\* GET /insights/<slug>/
GetInsightDetail(p, slug) ==
    /\ pc[p] = "idle"
    /\ resp' = Response("insight_detail", insight_detail(slug).status)
    /\ UNCHANGED <<insights, assets, studies, nextId, pc, arg, loc, html, out, audit, users>>

\* ------------------------------------------------------------------------
\* Moderation: dashboard users create, edit, toggle and delete insights
\* while visitors read the public pages; the site starts empty or with one
\* more published insight than a page shows
\* ------------------------------------------------------------------------

\* A published insight as the dashboard stores it.
StoredInsight(n) ==
    InsightToWrite([NoRow EXCEPT !.id = n, !.service = "facility",
                                 !.title = <<"t">> \o IntToStr(n),
                                 !.blocks = PostedDoc, !.is_active = TRUE,
                                 !.published = TRUE, !.published_at = n])
StoredInsights == {StoredInsight(n) : n \in 1..(PageSize + 1)}

ModerationTitles == {TitleAB, TitleBang}
UnknownSlug == <<"z">>

InitModeration ==
    \E rows \in {{}, StoredInsights} :
        /\ insights = rows
        /\ assets = {}
        /\ studies = {}
        /\ nextId = Cardinality(rows) + 1
        /\ pc = [p \in Procs |-> "idle"]
        /\ arg = [p \in Procs |-> NoArg]
        /\ loc = [p \in Procs |-> NoLocals]
        /\ resp = Response("", "")
        /\ html = EmptyBody
        /\ out = Returned(<<>>)
        /\ audit = <<>>
        /\ users = Accounts

NextModeration ==
    \E p \in {"p1"} :
        \/ \E t \in ModerationTitles, published \in BOOLEAN :
               dashboard_insight_create(p, "admin", t, PostedDoc, published)
        \/ \E r \in insights, published \in BOOLEAN :
               /\ r.id \in Ids
               /\ dashboard_insight_edit(p, "blogauthor", r.id, "POST", r.title, PostedDoc, published)
        \/ \E u \in Users, id \in Ids : dashboard_insight_toggle_active(p, u, id)
        \/ ToggleSave(p)
        \/ ToggleLog(p)
        \/ \E u \in Users, id \in Ids, m \in {"GET", "POST"} :
               dashboard_insight_delete(p, u, id, m)
        \/ DeleteLog(p)
        \/ DeleteRow(p)
        \/ \E s \in ServiceArgs : GetServiceDetail(p, s)
        \/ \E slug \in Slugs(insights) \cup {UnknownSlug} : GetInsightDetail(p, slug)

SpecModeration == InitModeration /\ [][NextModeration]_vars

\* ------------------------------------------------------------------------
\* Deletions: two workers serve the requests to dashboard_insight_delete,
\* interleaved at the database queries
\* ------------------------------------------------------------------------

NextDeletion ==
    \E p \in Procs :
        \/ \E u \in Users, id \in Ids, m \in {"GET", "POST"} :
               dashboard_insight_delete(p, u, id, m)
        \/ DeleteLog(p)
        \/ DeleteRow(p)

SpecDeletion == InitModeration /\ [][NextDeletion]_vars

\* The insight is one of the entries of a list a view hands to its template.
InList(list, r) == \E i \in 1..Len(list) : list[i].id = r.id

\* No public view shows an inactive insight: not the cards of its service
\* page, not its own page, not the related insights of another page.
InactiveHidden ==
    \A r \in insights :
        ~r.is_active =>
            /\ ~InList(service_detail(r.service).insights, r)
            /\ insight_detail(r.slug).status = "404"
            /\ \A q \in insights : ~InList(insight_detail(q.slug).related, r)

\* Both public views show an insight that is active and published.
ActiveShown ==
    \A r \in insights :
        (r.is_active /\ r.published) =>
            /\ InList(service_detail(r.service).insights, r)
            /\ insight_detail(r.slug).status = "200"
            /\ insight_detail(r.slug).insight = r

\* C19: after any sequence of create, edit, toggle-active and delete
\* requests, an insight with is_active = FALSE is absent from the insights
\* of service_detail and insight_detail answers 404 for its slug, while an
\* insight that is active and published is shown by both views.
C19_InactiveHiddenActiveShown == InactiveHidden /\ ActiveShown

\* The insights of the same service that the service page lists before r.
ListedBefore(r) ==
    {q \in insights : /\ q.service = r.service
                      /\ q.is_active /\ q.published /\ q.published_at # 0
                      /\ \/ q.published_at > r.published_at
                         \/ q.published_at = r.published_at /\ q.id > r.id}

\* C19, as the code has it: an insight with is_active = FALSE is shown by
\* no public view; an insight that is active and published is on its
\* service page exactly when it has a publication date and fewer than
\* PageSize such insights of the service are newer, and has its own page
\* exactly when its slug is not empty.
C19_InactiveHiddenActivePaged ==
    /\ InactiveHidden
    /\ \A r \in insights :
           (r.is_active /\ r.published) =>
               /\ InList(service_detail(r.service).insights, r)
                      <=> (r.published_at # 0
                           /\ Cardinality(ListedBefore(r)) < PageSize)
               /\ (/\ insight_detail(r.slug).status = "200"
                   /\ insight_detail(r.slug).insight = r) <=> (r.slug # <<>>)

\* A full service page after an insight was deactivated and its page asked for.
C19_Witness ==
    /\ \E r \in insights, i \in 1..Len(audit) :
           /\ ~r.is_active /\ r.published
           /\ audit[i].action = "deactivate" /\ audit[i].insight_id = r.id
    /\ Len(service_detail("facility").insights) = PageSize
    /\ resp = Response("insight_detail", "404")

\* The audit entries that record the deletion of the insight with this id.
DeleteEntries(id) ==
    {i \in 1..Len(audit) : audit[i].action = "delete" /\ audit[i].insight_id = id}

\* The entry is the record of this user deleting this insight.
RecordsDeletion(e, insight, user) ==
    /\ e.action = "delete"
    /\ e.insight_id = insight.id
    /\ e.insight_slug = insight.slug
    /\ e.insight_title = insight.title
    /\ e.actor = user

\* A deletion is between its audit entry and insight.delete().
Deleting(id) == \E p \in Procs : pc[p] = "delete_row" /\ loc[p].obj.id = id

\* One step of a POST to dashboard_insight_delete: the audit entry first,
\* with the row still stored, then the row; a step of any other request, a
\* GET of the view included, removes no row and records no deletion.
DeleteStep ==
    /\ \A p \in Procs :
        /\ (pc[p] = "delete_log" /\ pc'[p] = "delete_row") =>
               /\ HasRow(loc[p].obj.id)
               /\ insights' = insights
               /\ Len(audit') = Len(audit) + 1
               /\ SubSeq(audit', 1, Len(audit)) = audit
               /\ RecordsDeletion(audit'[Len(audit')], RowOf(loc[p].obj.id),
                                  loc[p].user)
        /\ (pc[p] = "delete_row" /\ pc'[p] = "idle") =>
               /\ \E i \in 1..Len(audit) :
                      RecordsDeletion(audit[i], loc[p].obj, loc[p].user)
               /\ audit' = audit
               /\ ~HasRow(loc[p].obj.id)'
    /\ (\A p \in Procs : pc[p] = "idle" /\ pc'[p] = "idle") =>
           /\ \A r \in insights : \E q \in insights' : q.id = r.id
           /\ \A id \in 1..MaxId + PageSize + 1 : DeleteEntries(id)' = DeleteEntries(id)

\* C20: every deletion of an insight through dashboard_insight_delete (POST)
\* is recorded by exactly one audit entry with action 'delete', the id, slug
\* and title of the insight and the acting user, written before the row is
\* removed; a GET request neither deletes nor logs.
C20_DeletionIsLogged ==
    /\ [](\A id \in 1..(nextId - 1) :
            Cardinality(DeleteEntries(id)) =
                IF ~HasRow(id) \/ Deleting(id) THEN 1 ELSE 0)
    /\ [][DeleteStep]_vars

\* ------------------------------------------------------------------------
\* Toggles: two workers serve the requests to
\* dashboard_insight_toggle_active, interleaved at the database queries
\* ------------------------------------------------------------------------

NextToggle ==
    \E p \in Procs :
        \/ \E u \in Users, id \in Ids : dashboard_insight_toggle_active(p, u, id)
        \/ ToggleSave(p)
        \/ ToggleLog(p)

SpecToggle == InitModeration /\ [][NextToggle]_vars

\* The audit entries that record a toggle of the insight with this id.
ToggleEntries(id) ==
    {i \in 1..Len(audit) : /\ audit[i].action \in {"activate", "deactivate"}
                           /\ audit[i].insight_id = id}

\* The entry is the record of this user switching the insight from one
\* value of the flag to the other.
RecordsToggle(e, id, user, before, after) ==
    /\ e.action = (IF after THEN "activate" ELSE "deactivate")
    /\ e.insight_id = id
    /\ e.actor = user
    /\ e.metadata.previous_status = before
    /\ e.metadata.new_status = after

\* A toggle is between insight.save() and its audit entry.
Toggling(id) == \E p \in Procs : pc[p] = "toggle_log" /\ loc[p].obj.id = id

\* One step of a POST to dashboard_insight_toggle_active: the save negates
\* the stored flag, then one entry records the values before and after.
ToggleStep ==
    \A p \in Procs :
        /\ (pc[p] = "toggle_save" /\ pc'[p] = "toggle_log") =>
               /\ HasRow(loc[p].obj.id)
               /\ audit' = audit
               /\ \E r \in insights' :
                      /\ r.id = loc[p].obj.id
                      /\ r.is_active = ~RowOf(loc[p].obj.id).is_active
        /\ (pc[p] = "toggle_log" /\ pc'[p] = "idle") =>
               /\ insights' = insights
               /\ Len(audit') = Len(audit) + 1
               /\ SubSeq(audit', 1, Len(audit)) = audit
               /\ HasRow(loc[p].obj.id)
               /\ RecordsToggle(audit'[Len(audit')], loc[p].obj.id, loc[p].user,
                                ~RowOf(loc[p].obj.id).is_active,
                                RowOf(loc[p].obj.id).is_active)

\* C21: each admin POST to dashboard_insight_toggle_active negates the
\* stored is_active flag and appends exactly one audit entry, 'deactivate'
\* for true to false and 'activate' for false to true, whose previous_status
\* and new_status are the stored values before and after; an insight, active
\* when created, is active again after every second toggle.
C21_ToggleNegatesAndLogs ==
    /\ [](\A id \in 1..(nextId - 1) :
            (HasRow(id) /\ ~Toggling(id)) =>
                (RowOf(id).is_active = (Cardinality(ToggleEntries(id)) % 2 = 0)))
    /\ [][ToggleStep]_vars

\* Two toggles of one insight have been served and logged.
C21_Witness ==
    /\ \E id \in Ids : Cardinality(ToggleEntries(id)) = 2 /\ HasRow(id)
    /\ \A p \in Procs : pc[p] = "idle"

\* ------------------------------------------------------------------------
\* Access: every account and a visitor send requests to the dashboard views
\* of insights; one worker serves them
\* ------------------------------------------------------------------------

Methods == {"GET", "POST"}

\* The title the edit form posts back: the one it was filled with.
FormTitle(id) == IF HasRow(id) THEN RowOf(id).title ELSE TitleAB

AccessUsers == Users \cup {"root"}

\* The insights the requests name: the stored one and the first one created.
AccessIds == {1, 2}

\* A request of the user to one of the insight views of the dashboard.
InsightRequest(p, u) ==
    \/ dashboard_insights_list(p, u)
    \/ dashboard_insight_create(p, u, TitleAB, PostedDoc, TRUE)
    \/ \E id \in AccessIds :
           \/ dashboard_insight_edit(p, u, id, "GET", FormTitle(id), PostedDoc, TRUE)
           \/ \E published \in BOOLEAN :
                  dashboard_insight_edit(p, u, id, "POST", FormTitle(id), PostedDoc,
                                         published)
    \/ \E id \in AccessIds, m \in Methods : dashboard_insight_delete(p, u, id, m)
    \/ \E id \in {0} \cup AccessIds : dashboard_insight_import_html(p, u, id)

NextAccess ==
    \E p \in {"p1"} :
        \/ \E u \in AccessUsers : InsightRequest(p, u)
        \/ DeleteLog(p)
        \/ DeleteRow(p)

\* The store holds one insight that the seed script made (no author).
InitAccess ==
    /\ insights = {StoredInsight(1)}
    /\ assets = {}
    /\ studies = {}
    /\ nextId = 2
    /\ pc = [p \in Procs |-> "idle"]
    /\ arg = [p \in Procs |-> NoArg]
    /\ loc = [p \in Procs |-> NoLocals]
    /\ resp = Response("", "")
    /\ html = EmptyBody
    /\ out = Returned(<<>>)
    /\ audit = <<>>
    /\ users = Accounts

SpecAccess == InitAccess /\ [][NextAccess]_vars

\* ------------------------------------------------------------------------
\* Administration: every account, a visitor and the account an admin
\* creates send requests to the admin-only views; one worker serves them
\* ------------------------------------------------------------------------

NewUserName == "newuser"
AdminUsers == {"admin", "blogauthor", "regular", "root", NewUserName}
RoleInputs == {"admin", "blog_author", "owner"}

\* A request of the user to one of the admin-only views.
AdminRequest(p, u) ==
    \/ dashboard_insight_toggle_active(p, u, 1)
    \/ dashboard_users_list(p, u)
    \/ \E role \in RoleInputs : dashboard_user_create(p, u, NewUserName, TRUE, role)
    \/ dashboard_user_create(p, u, NewUserName, FALSE, "admin")
    \/ \E role \in RoleInputs : dashboard_user_edit(p, u, NewUserName, "POST", role)
    \/ dashboard_user_edit(p, u, NewUserName, "GET", "admin")
    \/ \E name \in {"root", NewUserName}, m \in Methods :
           dashboard_user_delete(p, u, name, m)

NextAdmin ==
    \E p \in {"p1"} :
        \/ \E u \in AdminUsers : AdminRequest(p, u)
        \/ ToggleSave(p)
        \/ ToggleLog(p)

SpecAdmin == InitAccess /\ [][NextAdmin]_vars

\* What the database stores.
Stored == <<insights, assets, studies, nextId, audit, users>>

\* The user is logged in with the role admin or blog_author, or is a
\* superuser.
MayWrite(u) ==
    /\ IsAuthenticated(u)
    /\ Account(u).role \in {"admin", "blog_author"} \/ Account(u).is_superuser

\* C22: the insight views of the dashboard (list, create, edit, delete,
\* import) serve only a logged-in user whose role is admin or blog_author,
\* or a superuser: a visitor is sent to the login page, any other user gets
\* 403, and neither request changes anything stored.
C22_InsightViewsAreGuarded ==
    [][\A u \in AccessUsers :
          IF MayWrite(u)
          THEN (pc' = pc /\ resp'.status \in {"login", "403"}) =>
                   ~InsightRequest("p1", u)
          ELSE InsightRequest("p1", u) =>
                   /\ resp'.status = (IF IsAuthenticated(u) THEN "403" ELSE "login")
                   /\ UNCHANGED <<Stored, pc>>]_vars

\* The user with role 'user' was refused the deletion of a stored insight.
C22_Witness ==
    /\ resp = Response("dashboard_insight_delete", "403")
    /\ StoredInsight(1) \in insights
    /\ audit = <<>>

\* C25: an insight created through dashboard_insight_create has the
\* requesting user as author, and no later request to the insight views,
\* an edit by another user included, changes the author of a stored insight.
C25_AuthorIsCreator ==
    [][/\ \A u \in AccessUsers :
            (/\ dashboard_insight_create("p1", u, TitleAB, PostedDoc, TRUE)
             /\ insights' # insights) =>
                \E r \in insights' :
                    /\ r.id = nextId
                    /\ r.author = u
                    /\ insights' = insights \cup {r}
       /\ \A u \in AccessUsers, id \in AccessIds, published \in BOOLEAN :
            (/\ HasRow(id)
             /\ RowOf(id).author # u
             /\ dashboard_insight_edit("p1", u, id, "POST", FormTitle(id), PostedDoc,
                                       published)) =>
                \E r \in insights' : r.id = id /\ r.author = RowOf(id).author
       /\ \A r \in insights, r2 \in insights' :
            r2.id = r.id => r2.author = r.author]_vars

\* The insight that blogauthor created has been edited since, its published
\* flag cleared, and still names blogauthor as its author.
C25_Witness ==
    \E r \in insights : r.author = "blogauthor" /\ ~r.published

\* The user is logged in and is not an admin: the role is another one and
\* the account is not a superuser.
NotAdmin(u) ==
    /\ IsAuthenticated(u)
    /\ Account(u).role # "admin"
    /\ ~Account(u).is_superuser

\* C23: every admin-only view (toggle-active, user list, create, edit and
\* delete) answers 403 to a logged-in user who is not an admin, a blog author
\* included, and the request changes no insight, no account, no role and
\* writes no audit entry.
C23_AdminViewsRefuseOthers ==
    [][\A u \in AdminUsers :
          (NotAdmin(u) /\ AdminRequest("p1", u)) =>
              /\ resp'.status = "403"
              /\ UNCHANGED <<Stored, pc>>]_vars

\* The deletion of the account an admin created was refused with 403; the
\* insight is stored and active and nothing is logged.
C23_Witness ==
    /\ resp = Response("dashboard_user_delete", "403")
    /\ IsAuthenticated(NewUserName)
    /\ StoredInsight(1) \in insights
    /\ audit = <<>>

WrappedBody == << <<"<body>">>, <<"<h2>", "y", "</h2>">> >>
BlankBody == << <<" ">> >>

StoredBodies == {EmptyBody, PostBody, WrappedBody, BlankBody}
StoredBlockValues == {EmptyDict, PostedDoc, EmptyList}

\* A stored insight with this body and these blocks.
ImportedInsight(n, body, blocks) ==
    [StoredInsight(n) EXCEPT !.body = body, !.blocks = blocks]

InitImport ==
    \E body \in StoredBodies, blocks \in StoredBlockValues,
       others \in SUBSET {ImportedInsight(2, b, d) :
                              b \in {PostBody, WrappedBody}, d \in {EmptyDict, PostedDoc}} :
        /\ Cardinality(others) <= 1
        /\ insights = {ImportedInsight(1, body, blocks)} \cup others
        /\ assets = {}
        /\ studies = {}
        /\ nextId = Cardinality(others) + 2
        /\ pc = [p \in Procs |-> "idle"]
        /\ arg = [p \in Procs |-> NoArg]
        /\ loc = [p \in Procs |-> NoLocals]
        /\ resp = Response("", "")
        /\ html = EmptyBody
        /\ out = Returned(<<>>)
        /\ audit = <<>>
        /\ users = Accounts

PostedValues == {PostedDoc, InvalidJSON}

NextImport ==
    \E p \in {"p1"} :
        \/ \E id \in {0} \cup AccessIds : dashboard_insight_import_html(p, "admin", id)
        \/ \E id \in AccessIds :
               dashboard_insight_edit(p, "admin", id, "GET", FormTitle(id), PostedDoc, TRUE)
        \/ \E id \in AccessIds, posted \in PostedValues :
               dashboard_insight_edit(p, "admin", id, "POST", FormTitle(id), posted, TRUE)
        \/ \E posted \in PostedValues :
               dashboard_insight_create(p, "admin", TitleAB, posted, TRUE)

SpecImport == InitImport /\ [][NextImport]_vars

\* The second row is the first with the blocks converted from its body.
ConvertedFrom(old, new) ==
    new = [old EXCEPT !.blocks = views_html_to_editorjs_blocks(old.body).doc]

\* Every stored insight is kept as it is, or it had a body and no blocks
\* and now has the blocks converted from that body.
KeptOrConverted ==
    /\ Cardinality(insights') = Cardinality(insights)
    /\ \A r \in insights :
           \/ r \in insights'
           \/ /\ r.body # EmptyBody
              /\ r.blocks \in {EmptyDict, EmptyList}
              /\ \E q \in insights' : ConvertedFrom(r, q)

\* A POST to dashboard_insight_import_html, for one insight or for all, or
\* the opening of the edit form of an insight.
ImportOrOpen ==
    \/ \E id \in {0} \cup AccessIds : dashboard_insight_import_html("p1", "admin", id)
    \/ \E id \in AccessIds :
           dashboard_insight_edit("p1", "admin", id, "GET", FormTitle(id), PostedDoc, TRUE)

\* C26: the import of one insight, the import of all and the opening of the
\* edit form change only insights that have a body and no blocks, giving
\* them the blocks converted from the body; an insight with blocks keeps
\* them; convert-all run again right after convert-all changes nothing.
C26_OnlyBodyWithoutBlocks ==
    [][/\ ImportOrOpen => KeptOrConverted
       /\ dashboard_insight_import_html("p1", "admin", 0) =>
              ConvertAll(insights', InsightsToConvert(insights')).rows = insights']_vars

\* One insight got the blocks of its body while another, with a body as
\* well, kept the blocks it had.
C26_Witness ==
    \E r, q \in insights :
        /\ r.id # q.id
        /\ r.body = WrappedBody
        /\ r.blocks = views_html_to_editorjs_blocks(WrappedBody).doc
        /\ q.body # EmptyBody
        /\ q.blocks = PostedDoc

\* A POST of blocks that are not JSON to the edit form of the insight.
InvalidEdit(id) ==
    dashboard_insight_edit("p1", "admin", id, "POST", FormTitle(id), InvalidJSON, TRUE)

====
